---- MODULE Spec2Model ----
(***************************************************************************)
(* A model of the block-structured filesystem of                           *)
(* src/solution/src: the block layer (a_block_support.rs) and the mkfs /   *)
(* i_get of the inode layer (b_inode_support.rs).                          *)
(*                                                                         *)
(* The device is a function from absolute block numbers to blocks, a block *)
(* is a function from byte offsets 0..block_size-1 to bytes 0..255.  The   *)
(* bitmap is handled bit by bit exactly as the code does (8 bits a byte,   *)
(* the byte 255 is a full byte).  Fixed-layout records are scaled: every   *)
(* integer field of a record takes one byte instead of 2, 4 or 8, so a     *)
(* superblock is SB_SIZE = 7 bytes and an on-disk inode DINODE_SIZE =      *)
(* 3 + NDIRECT bytes; as in the build, a block that can hold an inode can  *)
(* hold the superblock.                                                    *)
(***************************************************************************)
EXTENDS Integers, Sequences, FiniteSets, TLC

VARIABLES
    disk,   \* the device: [0..nblocks-1 -> [0..block_size-1 -> 0..255]], <<>> before mkfs
    phase,  \* "sb_input" / "sb_checked" (sb_valid runs), "unformatted" / "mounted"
    layer,  \* which implementation owns the device: "Block" or "Inode"
    op,     \* the last call: [name, i, sb]
    ret,    \* its result: [ok, val, err]
    hist    \* history: [live, nalloc, onlyAlloc, nfree, nput]

vars == <<disk, phase, layer, op, ret, hist>>

(***************************************************************************)
(* Program constants (scaled) and record layouts.                          *)
(***************************************************************************)
NDIRECT == 4
DINODE_SIZE == 7
SB_SIZE == 7

\* variant indices of FType as the serialization framework writes them
TDir == 0
TFile == 1
TFree == 2

Min(S) == CHOOSE x \in S : \A y \in S : x <= y

Ceil(a, b) == (a + b - 1) \div b

SuperBlock(bs, nb, ni, is, nd, bm, ds) ==
    [block_size |-> bs, nblocks |-> nb, ninodes |-> ni, inodestart |-> is,
     ndatablocks |-> nd, bmapstart |-> bm, datastart |-> ds]

NoSB == SuperBlock(0, 0, 0, 0, 0, 0, 0)

(***************************************************************************)
(* sb_valid, as the code computes it.                                      *)
(***************************************************************************)
sb_valid(sb) ==
    LET n_super_blocks == 1
        n_bitmap_blocks == (sb.ndatablocks \div (sb.block_size * 8)) + 1
        n_of_inode_in_block == sb.block_size \div DINODE_SIZE
        n_inode_blocks ==
            IF sb.ninodes % n_of_inode_in_block = 0
            THEN sb.ninodes \div n_of_inode_in_block
            ELSE sb.ninodes \div n_of_inode_in_block + 1
    IN  IF sb.nblocks < (sb.ndatablocks + n_inode_blocks + n_bitmap_blocks + n_super_blocks)
        THEN FALSE
        ELSE IF ~(sb.inodestart < sb.bmapstart /\ sb.bmapstart < sb.datastart)
        THEN FALSE
        ELSE IF sb.inodestart + n_inode_blocks > sb.bmapstart
        THEN FALSE
        ELSE IF sb.bmapstart + n_bitmap_blocks > sb.datastart
        THEN FALSE
        ELSE IF sb.datastart + sb.ndatablocks > sb.nblocks
        THEN FALSE
        ELSE TRUE

(***************************************************************************)
(* The layout a superblock describes (used to state the claims).           *)
(***************************************************************************)
InodeBlocks(sb) == Ceil(sb.ninodes, sb.block_size \div DINODE_SIZE)

BitmapBlocks(sb) == Ceil(sb.ndatablocks, sb.block_size * 8)

LayoutInvariants(sb) ==
    /\ 0 < sb.inodestart /\ sb.inodestart < sb.bmapstart /\ sb.bmapstart < sb.datastart
    /\ sb.inodestart + InodeBlocks(sb) <= sb.bmapstart
    /\ sb.bmapstart + BitmapBlocks(sb) <= sb.datastart
    /\ sb.datastart + sb.ndatablocks <= sb.nblocks
    /\ 1 + InodeBlocks(sb) + BitmapBlocks(sb) + sb.ndatablocks <= sb.nblocks

SuperRegion(sb) == {0}

InodeRegion(sb) == sb.inodestart .. (sb.inodestart + InodeBlocks(sb) - 1)

BitmapRegion(sb) == sb.bmapstart .. (sb.bmapstart + BitmapBlocks(sb) - 1)

DataRegion(sb) == sb.datastart .. (sb.datastart + sb.ndatablocks - 1)

RegionsDisjointAndInside(sb) ==
    LET R == <<SuperRegion(sb), InodeRegion(sb), BitmapRegion(sb), DataRegion(sb)>>
    IN  /\ \A a \in 1..4 : \A b \in 1..4 : a # b => R[a] \cap R[b] = {}
        /\ \A a \in 1..4 : R[a] \subseteq 0 .. (sb.nblocks - 1)

(***************************************************************************)
(* Results.                                                                *)
(***************************************************************************)
Ok(v) == [ok |-> TRUE, val |-> v, err |-> "none"]

Err(e) == [ok |-> FALSE, val |-> 0, err |-> e]

(***************************************************************************)
(* Bytes and bits.                                                         *)
(***************************************************************************)
Bit(b, k) == (b \div (2 ^ k)) % 2

\* `while (data[j] & (1 << k)) > 0 { k += 1 }` on a byte that is not 255
LowestZeroBit(b) == Min({k \in 0..7 : Bit(b, k) = 0})

\* data[j] | 2^k
OrBit(b, k) == IF Bit(b, k) = 1 THEN b ELSE b + 2 ^ k

\* data[j] ^ (1 << k)
XorBit(b, k) == IF Bit(b, k) = 1 THEN b - 2 ^ k ELSE b + 2 ^ k

(***************************************************************************)
(* The block device and the record serialization (external collaborators). *)
(***************************************************************************)
ZeroBlock(bs) == [j \in 0..(bs - 1) |-> 0]

NewDevice(bs, nb) == [b \in 0..(nb - 1) |-> ZeroBlock(bs)]

\* Device::write_block: the block number and the length must fit the device
CanWrite(d, no, blk) == no \in DOMAIN d /\ DOMAIN blk = DOMAIN d[no]

\* Block::serialize_into / write_data: bytes written at offset off
WriteAt(blk, off, bytes) ==
    [j \in DOMAIN blk |->
        IF off <= j /\ j < off + Len(bytes) THEN bytes[j - off + 1] ELSE blk[j]]

Fits(blk, off, n) == \A j \in off..(off + n - 1) : j \in DOMAIN blk

serialize_sb(sb) ==
    <<sb.block_size, sb.nblocks, sb.ninodes, sb.inodestart,
      sb.ndatablocks, sb.bmapstart, sb.datastart>>

deserialize_sb(blk) ==
    SuperBlock(blk[0], blk[1], blk[2], blk[3], blk[4], blk[5], blk[6])

DInode(ft, nlink, size, direct_blocks) ==
    [ft |-> ft, nlink |-> nlink, size |-> size, direct_blocks |-> direct_blocks]

DInodeDefault == DInode(TFree, 0, 0, [n \in 0..(NDIRECT - 1) |-> 0])

serialize_dinode(di) ==
    <<di.ft, di.nlink, di.size>> \o [n \in 1..NDIRECT |-> di.direct_blocks[n - 1]]

deserialize_dinode(blk, off) ==
    DInode(blk[off], blk[off + 1], blk[off + 2],
           [n \in 0..(NDIRECT - 1) |-> blk[off + 3 + n]])

\* the bytes at off decode to an inode: they lie in the block and name a variant
DecodesDInode(blk, off) ==
    Fits(blk, off, DINODE_SIZE) /\ blk[off] \in {TDir, TFile, TFree}

(***************************************************************************)
(* Block layer.                                                            *)
(***************************************************************************)
Out(d, r) == [disk |-> d, ret |-> r]

\* a superblock kept from mkfs time instead of the one block 0 holds
sup_get_cached(d) == SuperBlock(7, 9, 2, 1, 5, 3, 4)

\* sup_get: block 0 is read and decoded at every call
sup_get(d) == deserialize_sb(d[0])

\* b_get: Device::read_block of block i
b_get(d, i) ==
    IF i \in DOMAIN d THEN [ok |-> TRUE, err |-> "none", block |-> d[i]]
    ELSE [ok |-> FALSE, err |-> "FileSystemError", block |-> <<>>]

\* a write the device never sees
WriteBlockDropped(d, no, blk) == d

\* Device::write_block: block no of the device becomes blk
WriteBlock(d, no, blk) == [d EXCEPT ![no] = blk]

\* b_put: Device::write_block of block b at b.block_no
b_put(d, no, blk) ==
    IF CanWrite(d, no, blk) THEN Out(WriteBlock(d, no, blk), Ok(0))
    ELSE Out(d, Err("FileSystemError"))

b_zero(d, i) ==
    LET sb == sup_get(d)
    IN  IF i >= sb.ndatablocks THEN Out(d, Err("OutsideOfTheBoundaries"))
        ELSE b_put(d, i + sb.datastart, ZeroBlock(sb.block_size))

\* position of bit i inside its bitmap block: byte and bit
FreeByteIndex(sb, i) ==
    (i - (sb.block_size * 8) * (i \div (sb.block_size * 8))) \div 8

FreeBitIndexOffByOne(sb, i) ==
    ((i - (sb.block_size * 8) * (i \div (sb.block_size * 8))) + 1) % 8

FreeBitIndex(sb, i) ==
    (i - (sb.block_size * 8) * (i \div (sb.block_size * 8))) % 8

\* the bit is set: data[j] & (1 << k) > 0
FreeBitIsSetAlways(byte, k) == TRUE

FreeBitIsSet(byte, k) == Bit(byte, k) = 1

b_free(d, i) ==
    LET sb == sup_get(d)
        bitmap_block_number == i \div (sb.block_size * 8)
        no == sb.bmapstart + bitmap_block_number
        index == FreeByteIndex(sb, i)
        k == FreeBitIndex(sb, i)
    IN  IF i >= sb.ndatablocks THEN Out(d, Err("OutsideOfTheBoundaries"))
        ELSE IF no \notin DOMAIN d THEN Out(d, Err("FileSystemError"))
        ELSE IF index \notin DOMAIN d[no] THEN Out(d, Ok(0))
        ELSE IF FreeBitIsSet(d[no][index], k)
             THEN Out([d EXCEPT ![no] = [d[no] EXCEPT ![index] = XorBit(d[no][index], k)]],
                      Ok(0))
             ELSE Out(d, Err("MemoryAlreadyDeallocated"))

\* the bit chosen inside the first byte that is not 255
AllocBitHighest(byte) == CHOOSE k \in 0..7 : Bit(byte, k) = 0 /\ \A m \in (k + 1)..7 : Bit(byte, m) = 1

AllocBit(byte) == LowestZeroBit(byte)

\* the value b_alloc checks against the data range and hands (mod ndatablocks)
\* to b_zero: datastart + i * block_size + counter + k, with counter = 8 * j
AllocCheckIndex(sb, i, j, k) == sb.datastart + i * sb.block_size + 8 * j + k

\* the value b_alloc returns
AllocIndex(sb, i, j, k) == (k + 8 * j) + sb.block_size * 8 * i

RECURSIVE b_alloc_from(_, _)
b_alloc_from(d, i) ==
    LET superblock == sup_get(d)
        bitmap_blocks == superblock.ndatablocks \div (superblock.block_size * 8)
        no == superblock.bmapstart + i
    IN  IF i >= bitmap_blocks + 1 THEN Out(d, Err("OutsideOfTheBoundaries"))
        ELSE IF no \notin DOMAIN d THEN Out(d, Err("FileSystemError"))
        ELSE LET data == d[no]
                 open == {j \in DOMAIN data : data[j] # 255}
             IN  IF open = {} THEN b_alloc_from(d, i + 1)
                 ELSE LET j == Min(open)
                          k == AllocBit(data[j])
                          index == AllocCheckIndex(superblock, i, j, k)
                          z == b_zero(d, index % superblock.ndatablocks)
                          changed_data == [data EXCEPT ![j] = OrBit(data[j], k)]
                          w == b_put(z.disk, no, changed_data)
                      IN  IF index > superblock.ndatablocks + superblock.datastart - 1
                          THEN Out(d, Err("OutsideOfTheBoundaries"))
                          ELSE IF ~z.ret.ok THEN z
                          ELSE IF ~w.ret.ok THEN w
                          ELSE Out(w.disk, Ok(AllocIndex(superblock, i, j, k)))

b_alloc(d) == b_alloc_from(d, 0)

(***************************************************************************)
(* mkfs of the block layer and of the inode layer, and i_get.              *)
(***************************************************************************)
mkfs_block(sb) ==
    LET device == NewDevice(sb.block_size, sb.nblocks)
        super_block == WriteAt(ZeroBlock(sb.block_size), 0, serialize_sb(sb))
    IN  IF ~sb_valid(sb) THEN Out(<<>>, Err("SuperBlockInvalid"))
        ELSE IF ~Fits(ZeroBlock(sb.block_size), 0, SB_SIZE)
             THEN Out(<<>>, Err("FileSystemError"))
        ELSE IF ~CanWrite(device, 0, super_block) THEN Out(<<>>, Err("FileSystemError"))
        ELSE Out([device EXCEPT ![0] = super_block], Ok(0))

\* first block the inode layer's mkfs writes its inode blocks to: Block::new_zero(i + 1, ..)
MkfsInodeBase(sb) == 1

\* the i-th inode block mkfs builds: a default inode in every slot j with
\* i * n_inodes_per_block + (j + 1) <= ninodes
MkfsInodeBlock(sb, i) ==
    LET n_inodes_per_block == sb.block_size \div DINODE_SIZE
    IN  [x \in 0..(sb.block_size - 1) |->
            IF /\ x \div DINODE_SIZE < n_inodes_per_block
               /\ i * n_inodes_per_block + (x \div DINODE_SIZE + 1) <= sb.ninodes
            THEN serialize_dinode(DInodeDefault)[(x % DINODE_SIZE) + 1]
            ELSE 0]

RECURSIVE mkfs_inode_blocks(_, _, _)
mkfs_inode_blocks(device, sb, i) ==
    LET n_inodes_blocks == sb.ninodes \div (sb.block_size \div DINODE_SIZE)
        inode_block == MkfsInodeBlock(sb, i)
    IN  IF i >= n_inodes_blocks + 1 THEN Out(device, Ok(0))
        ELSE IF ~CanWrite(device, i + MkfsInodeBase(sb), inode_block)
             THEN Out(<<>>, Err("FileSystemError"))
        ELSE mkfs_inode_blocks([device EXCEPT ![i + MkfsInodeBase(sb)] = inode_block], sb, i + 1)

mkfs_inode(sb) ==
    LET s == mkfs_block(sb)
    IN  IF ~s.ret.ok THEN s ELSE mkfs_inode_blocks(s.disk, sb, 0)

mkfs(l, sb) == IF l = "Block" THEN mkfs_block(sb) ELSE mkfs_inode(sb)

Inode(inum, disk_node) == [inum |-> inum, disk_node |-> disk_node]

\* i_get: [ok, err, inode]; a failed unwrap() of the deserialization is "panic"
IGetOk(ino) == [ok |-> TRUE, err |-> "none", inode |-> ino]

IGetErr(e) == [ok |-> FALSE, err |-> e, inode |-> Inode(0, DInodeDefault)]

i_get(d, i) ==
    LET sb == sup_get(d)
        n_inodes_per_block == sb.block_size \div DINODE_SIZE
        index_of_block == i \div n_inodes_per_block
        index_of_inode == i - (n_inodes_per_block * index_of_block)
        no == sb.inodestart + index_of_block
    IN  IF sb.ninodes = 0 THEN IGetErr("panic")
        ELSE IF i > sb.ninodes - 1 THEN IGetErr("OutsideOfTheBoundaries")
        ELSE IF n_inodes_per_block = 0 THEN IGetErr("panic")
        ELSE IF no \notin DOMAIN d THEN IGetErr("FileSystemError")
        ELSE IF ~DecodesDInode(d[no], DINODE_SIZE * index_of_inode) THEN IGetErr("panic")
        ELSE IGetOk(Inode(i, deserialize_dinode(d[no], DINODE_SIZE * index_of_inode)))

(***************************************************************************)
(* The call record and the history record.                                 *)
(***************************************************************************)
NoInode == Inode(0, DInodeDefault)

\* a call: its name, its integer argument, and its superblock, inode and name
\* arguments where it has them
CallOf(name, i, sb, ino, nm) ==
    [name |-> name, i |-> i, sb |-> sb, ino |-> ino, nm |-> nm]

Call(name, i, sb) == CallOf(name, i, sb, NoInode, <<>>)

\* what the caller holds: the data-relative indices b_alloc handed out (live),
\* counters, the inode a call handed back or updated in place (ino), and the
\* directory links made so far (links)
NoHist ==
    [live |-> {}, nalloc |-> 0, onlyAlloc |-> TRUE, nfree |-> 0, nput |-> 0,
     ino |-> NoInode, links |-> {}, nops |-> 0, clean |-> TRUE,
     released |-> FALSE]

(***************************************************************************)
(* Specification Spec: mkfs, then b_alloc, b_free and b_put in any order.  *)
(***************************************************************************)
MaxFree == 2
MaxPut == 1

\* scaled from SUPERBLOCK_GOOD of the tests: datastart a multiple of ndatablocks
SB_GOOD == SuperBlock(7, 10, 2, 1, 5, 4, 5)

\* inode table not at block 1, datastart no multiple of ndatablocks
SB_SHIFTED == SuperBlock(7, 7, 1, 2, 3, 3, 4)

\* as SUPERBLOCK_GOOD_BIG of the tests: the bitmap spans two blocks
SB_BIG == SuperBlock(7, 61, 1, 1, 57, 2, 4)

\* two inodes a block
SB_PACKED == SuperBlock(14, 7, 3, 1, 2, 4, 5)

\* inode table at block 0, which sb_valid lets pass
SB_INODES_AT_ZERO == SuperBlock(7, 6, 1, 0, 3, 1, 2)

\* regions out of order, as bad_order_superblock_test
SB_BAD_ORDER == SuperBlock(7, 10, 2, 4, 2, 1, 3)

MkfsSuperBlocks ==
    {SB_GOOD, SB_SHIFTED, SB_BIG, SB_PACKED, SB_INODES_AT_ZERO, SB_BAD_ORDER}

Layers == {"Block", "Inode"}

BFreeArgs(sb) == {0, 1, 8, sb.ndatablocks} \cup {i \in {sb.ndatablocks - 1} : i >= 0}

BPutBlocks(sb) == {sb.datastart, sb.datastart + 1}

\* the block the tests write: byte 0 is 1
PutPattern(bs) == [j \in 0..(bs - 1) |-> IF j = 0 THEN 1 ELSE 0]

Init ==
    /\ disk = <<>>
    /\ phase = "unformatted"
    /\ layer = "Block"
    /\ op = Call("none", 0, NoSB)
    /\ ret = Ok(0)
    /\ hist = NoHist

Mkfs ==
    /\ phase = "unformatted"
    /\ \E l \in Layers : \E sb \in MkfsSuperBlocks :
        LET r == mkfs(l, sb)
        IN  /\ disk' = r.disk
            /\ ret' = r.ret
            /\ op' = Call("mkfs", 0, sb)
            /\ layer' = l
            /\ phase' = IF r.ret.ok THEN "mounted" ELSE "unformatted"
    /\ hist' = NoHist

BAlloc ==
    /\ phase = "mounted"
    /\ LET r == b_alloc(disk)
       IN  /\ disk' = r.disk
           /\ ret' = r.ret
           /\ hist' = [hist EXCEPT
                  !.live = IF r.ret.ok THEN @ \cup {r.ret.val} ELSE @,
                  !.nalloc = IF r.ret.ok /\ hist.onlyAlloc THEN @ + 1 ELSE @]
    /\ op' = Call("b_alloc", 0, NoSB)
    /\ UNCHANGED <<phase, layer>>

BFree ==
    /\ phase = "mounted"
    /\ hist.nfree < MaxFree
    /\ \E i \in BFreeArgs(sup_get(disk)) :
        LET r == b_free(disk, i)
        IN  /\ disk' = r.disk
            /\ ret' = r.ret
            /\ op' = Call("b_free", i, NoSB)
            /\ hist' = [hist EXCEPT
                   !.live = IF r.ret.ok THEN @ \ {i} ELSE @,
                   !.nalloc = 0, !.onlyAlloc = FALSE, !.nfree = @ + 1]
    /\ UNCHANGED <<phase, layer>>

BPut ==
    /\ phase = "mounted"
    /\ hist.nput < MaxPut
    /\ \E no \in BPutBlocks(sup_get(disk)) :
        LET r == b_put(disk, no, PutPattern(sup_get(disk).block_size))
        IN  /\ disk' = r.disk
            /\ ret' = r.ret
            /\ op' = Call("b_put", no, NoSB)
    /\ hist' = [hist EXCEPT !.nalloc = 0, !.onlyAlloc = FALSE, !.nput = @ + 1]
    /\ UNCHANGED <<phase, layer>>

Next == Mkfs \/ BAlloc \/ BFree \/ BPut

Spec == Init /\ [][Next]_vars

\* mkfs, then b_alloc and b_free only
NextAlloc == Mkfs \/ BAlloc \/ BFree

SpecAlloc == Init /\ [][NextAlloc]_vars

(***************************************************************************)
(* The bitmap read as one contiguous low-bit-first bit array (used to      *)
(* state the claims).                                                      *)
(***************************************************************************)
BitmapBlockOf(sb, k) == sb.bmapstart + k \div (sb.block_size * 8)

BitmapByteOf(sb, k) == (k % (sb.block_size * 8)) \div 8

BitmapBit(d, k) ==
    LET sb == sup_get(d)
    IN  Bit(d[BitmapBlockOf(sb, k)][BitmapByteOf(sb, k)], k % 8)

\* every bit position of the blocks between bmapstart and datastart
BitmapPositions(d) ==
    LET sb == sup_get(d)
    IN  0 .. ((sb.datastart - sb.bmapstart) * sb.block_size * 8 - 1)

FreeIndices(d) == {k \in 0..(sup_get(d).ndatablocks - 1) : BitmapBit(d, k) = 0}

C4_AllocSmallestFree ==
    [][(op'.name = "b_alloc" /\ ret'.ok) =>
        /\ FreeIndices(disk) # {}
        /\ ret'.val = Min(FreeIndices(disk))
        /\ BitmapBit(disk', ret'.val) = 1]_vars

\* C5: b_alloc never returns an index >= ndatablocks; with every bit of
\* [0, ndatablocks) set it fails with OutsideOfTheBoundaries and changes nothing.
C5_AllocStaysInRange ==
    [][op'.name = "b_alloc" =>
        /\ ret'.ok => ret'.val < sup_get(disk).ndatablocks
        /\ FreeIndices(disk) = {} =>
            (~ret'.ok /\ ret'.err = "OutsideOfTheBoundaries" /\ disk' = disk)]_vars

\* C6: when b_alloc returns k, block datastart + k reads back all zero.
C6_AllocatedBlockZeroed ==
    (phase = "mounted" /\ op.name = "b_alloc" /\ ret.ok) =>
        LET sb == sup_get(disk)
        IN  /\ sb.datastart + ret.val \in DOMAIN disk
            /\ disk[sb.datastart + ret.val] = ZeroBlock(sb.block_size)

\* C7: b_free(i) fails with MemoryAlreadyDeallocated when bit i is 0 and with
\* OutsideOfTheBoundaries when i >= ndatablocks; the device is not modified.
C7_FreeErrors ==
    [][op'.name = "b_free" =>
        /\ op'.i >= sup_get(disk).ndatablocks =>
            (~ret'.ok /\ ret'.err = "OutsideOfTheBoundaries" /\ disk' = disk)
        /\ (op'.i < sup_get(disk).ndatablocks /\ BitmapBit(disk, op'.i) = 0) =>
            (~ret'.ok /\ ret'.err = "MemoryAlreadyDeallocated" /\ disk' = disk)]_vars

\* C7 witness: b_free of a free bit of the second bitmap block, other blocks being
\* allocated, is refused
C7_Witness ==
    /\ phase = "mounted" /\ op.name = "b_free"
    /\ ret.err = "MemoryAlreadyDeallocated"
    /\ sup_get(disk) = SB_BIG
    /\ op.i = SB_BIG.ndatablocks - 1
    /\ hist.live # {}

\* C8: a successful b_free(i) clears exactly bit i (bit i mod 8 of byte
\* (i mod (block_size*8)) / 8 of block bmapstart + i / (block_size*8)) and leaves
\* every other bit and every other block, data block datastart + i included, as it was.
C8_FreeClearsExactlyBitI ==
    [][(op'.name = "b_free" /\ ret'.ok) =>
        LET sb == sup_get(disk)
            no == BitmapBlockOf(sb, op'.i)
            j == BitmapByteOf(sb, op'.i)
        IN  /\ Bit(disk[no][j], op'.i % 8) = 1
            /\ disk'[no][j] = disk[no][j] - 2 ^ (op'.i % 8)
            /\ \A x \in DOMAIN disk[no] : x # j => disk'[no][x] = disk[no][x]
            /\ \A b \in DOMAIN disk : b # no => disk'[b] = disk[b]
            /\ DOMAIN disk' = DOMAIN disk]_vars

\* C8 witness: a block that holds written data is freed and keeps its contents
C8_Witness ==
    /\ phase = "mounted" /\ op.name = "b_free" /\ ret.ok
    /\ disk[sup_get(disk).datastart + op.i] = PutPattern(sup_get(disk).block_size)
    /\ BitmapBit(disk, op.i) = 0

\* C9: on a filesystem the block layer formatted, the bitmap has bit k set exactly
\* for the indices b_alloc returned and b_free has not released since, and every
\* bit at a position >= ndatablocks is 0.
C9_BitmapIsLiveSet ==
    (phase = "mounted" /\ layer = "Block") =>
        \A k \in BitmapPositions(disk) :
            /\ BitmapBit(disk, k) = 1 <=> k \in hist.live
            /\ k >= sup_get(disk).ndatablocks => BitmapBit(disk, k) = 0

\* C10: mkfs fails with SuperBlockInvalid exactly when sb_valid is false; when it
\* succeeds sup_get returns sb, every bitmap bit is 0 and i_get(k) is a TFree
\* inode for every k below ninodes.
C10_MkfsResult ==
    op.name = "mkfs" =>
        /\ ~ret.ok <=> ~sb_valid(op.sb)
        /\ ~ret.ok => ret.err = "SuperBlockInvalid"
        /\ ret.ok =>
            /\ sup_get(disk) = op.sb
            /\ \A k \in BitmapPositions(disk) : BitmapBit(disk, k) = 0
            /\ layer = "Inode" =>
                \A k \in 0..(op.sb.ninodes - 1) :
                    /\ i_get(disk, k).ok
                    /\ i_get(disk, k).inode.inum = k
                    /\ i_get(disk, k).inode.disk_node.ft = TFree

(***************************************************************************)
(* Specification SpecSB: sb_valid applied to every superblock of a grid.   *)
(***************************************************************************)
MaxStart == 5
MaxInodes == 3

SBBlockSizes == {DINODE_SIZE, DINODE_SIZE + 1, 2 * DINODE_SIZE}

SBDataBlocks == {0, 1, 2, 8 * DINODE_SIZE - 1, 8 * DINODE_SIZE, 8 * DINODE_SIZE + 1}

SBNBlocks == (0 .. (MaxStart + 3)) \cup ((8 * DINODE_SIZE + 1) .. (8 * DINODE_SIZE + 6))

SBSpace ==
    { SuperBlock(bs, nb, ni, is, nd, bm, ds) :
        bs \in SBBlockSizes, nb \in SBNBlocks, ni \in 0..MaxInodes,
        is \in 0..2, nd \in SBDataBlocks, bm \in 0..(MaxStart - 1), ds \in 0..MaxStart }

InitSB ==
    /\ disk = <<>>
    /\ phase = "sb_input"
    /\ layer = "Block"
    /\ op \in { Call("none", 0, sb) : sb \in SBSpace }
    /\ ret = Ok(FALSE)
    /\ hist = NoHist

SbValid ==
    /\ phase = "sb_input"
    /\ phase' = "sb_checked"
    /\ op' = Call("sb_valid", 0, op.sb)
    /\ ret' = Ok(sb_valid(op.sb))
    /\ UNCHANGED <<disk, layer, hist>>

NextSB == SbValid

SpecSB == InitSB /\ [][NextSB]_vars

\* C1: sb_valid(sb) is true exactly when the five layout invariants hold.
C1_SbValidIffLayoutInvariants ==
    phase = "sb_checked" => (ret.val <=> LayoutInvariants(op.sb))

\* C2: for every superblock sb_valid accepts, the superblock, inode, bitmap and
\* data regions are pairwise disjoint and lie inside [0, nblocks).
C2_ValidRegionsDisjoint ==
    (phase = "sb_checked" /\ ret.val) => RegionsDisjointAndInside(op.sb)

(***************************************************************************)
(* The inode operations.  The inode and the directory layer hold the same  *)
(* code but for the range test: i > ninodes - 1 in the inode layer,        *)
(* i + 1 > ninodes in the directory layer.                                 *)
(***************************************************************************)
\* the range test of i_get, i_put and i_free: "ok", "oob", or "panic" where the
\* unsigned subtraction ninodes - 1 underflows (overflow checks on, as in the
\* build the tests of the repository run in)
InodeRange(l, sb, i) ==
    IF l = "Dir" THEN (IF i + 1 > sb.ninodes THEN "oob" ELSE "ok")
    ELSE IF sb.ninodes = 0 THEN "panic"
    ELSE IF i > sb.ninodes - 1 THEN "oob"
    ELSE "ok"

i_get_dir(d, i) ==
    LET sb == sup_get(d)
        n_inodes_per_block == sb.block_size \div DINODE_SIZE
        index_of_block == i \div n_inodes_per_block
        index_of_inode == i - (n_inodes_per_block * index_of_block)
        no == sb.inodestart + index_of_block
    IN  IF i + 1 > sb.ninodes THEN IGetErr("OutsideOfTheBoundaries")
        ELSE IF n_inodes_per_block = 0 THEN IGetErr("panic")
        ELSE IF no \notin DOMAIN d THEN IGetErr("FileSystemError")
        ELSE IF ~DecodesDInode(d[no], DINODE_SIZE * index_of_inode) THEN IGetErr("panic")
        ELSE IGetOk(Inode(i, deserialize_dinode(d[no], DINODE_SIZE * index_of_inode)))

i_get_of(l, d, i) == IF l = "Dir" THEN i_get_dir(d, i) ELSE i_get(d, i)

i_put(l, d, ino) ==
    LET sb == sup_get(d)
        n_inodes_per_block == sb.block_size \div DINODE_SIZE
        index_of_block == ino.inum \div n_inodes_per_block
        index_of_inode == ino.inum - (n_inodes_per_block * index_of_block)
        no == sb.inodestart + index_of_block
    IN  IF InodeRange(l, sb, ino.inum) = "panic" THEN Out(d, Err("panic"))
        ELSE IF InodeRange(l, sb, ino.inum) = "oob" THEN Out(d, Err("OutsideOfTheBoundaries"))
        ELSE IF n_inodes_per_block = 0 THEN Out(d, Err("panic"))
        ELSE IF no \notin DOMAIN d THEN Out(d, Err("FileSystemError"))
        ELSE IF ~Fits(d[no], DINODE_SIZE * index_of_inode, DINODE_SIZE)
             THEN Out(d, Err("FileSystemError"))
        ELSE Out([d EXCEPT ![no] = WriteAt(d[no], DINODE_SIZE * index_of_inode,
                                           serialize_dinode(ino.disk_node))],
                 Ok(0))

\* the data-relative index i_free and i_trunc hand to b_free for the absolute
\* address a direct pointer holds
FreeArg(sb, a) == a % sb.datastart

\* the loop of i_free and i_trunc over the first n_valid_blocks direct pointers,
\* from pointer i; an index past the array, or datastart = 0, panics
RECURSIVE free_direct_blocks(_, _, _, _)
free_direct_blocks(d, dn, i, n_valid_blocks) ==
    LET sb == sup_get(d)
        r == b_free(d, FreeArg(sb, dn.direct_blocks[i]))
    IN  IF i >= n_valid_blocks THEN Out(d, Ok(0))
        ELSE IF i >= NDIRECT THEN Out(d, Err("panic"))
        ELSE IF dn.direct_blocks[i] = 0 THEN free_direct_blocks(d, dn, i + 1, n_valid_blocks)
        ELSE IF sb.datastart = 0 THEN Out(d, Err("panic"))
        ELSE IF ~r.ret.ok THEN r
        ELSE free_direct_blocks(r.disk, dn, i + 1, n_valid_blocks)

\* (size as f64 / block_size as f64).ceil() as usize: a division by 0 gives NaN
\* (cast to 0) for size 0 and infinity (cast to the largest usize) otherwise
NValidBlocks(sb, size) ==
    IF sb.block_size = 0 THEN (IF size = 0 THEN 0 ELSE NDIRECT + 1)
    ELSE Ceil(size, sb.block_size)

NoDirectBlocks == [n \in 0..(NDIRECT - 1) |-> 0]

\* nlink = 0 is needed to release the inode
FreeNeedsNoLink(nlink) == nlink = 0

i_free(l, d, i) ==
    LET sb == sup_get(d)
        g == i_get_of(l, d, i)
        dn == g.inode.disk_node
        f == free_direct_blocks(d, dn, 0, NValidBlocks(sb, dn.size))
        modified_dinode == [dn EXCEPT !.ft = TFree, !.direct_blocks = NoDirectBlocks]
    IN  IF InodeRange(l, sb, i) = "panic" THEN Out(d, Err("panic"))
        ELSE IF InodeRange(l, sb, i) = "oob" THEN Out(d, Err("OutsideOfTheBoundaries"))
        ELSE IF ~g.ok THEN Out(d, Err("panic"))
        ELSE IF dn.ft = TFree THEN Out(d, Err("InodeAlreadyDeallocated"))
        ELSE IF ~FreeNeedsNoLink(dn.nlink) THEN Out(d, Ok(0))
        ELSE IF ~f.ret.ok THEN f
        ELSE i_put(l, f.disk, Inode(i, modified_dinode))

\* `if i == 0 && j == 0 { continue; }`: the scan of i_alloc passes over inode 0
SkipsInode(idx) == idx = 0

\* the scan of i_alloc from inode index idx = i * n_inodes_per_block + j

RECURSIVE i_alloc_from(_, _, _, _)
i_alloc_from(l, d, ft, idx) ==
    LET sb == sup_get(d)
        n_inodes_per_block == sb.block_size \div DINODE_SIZE
        n_inodes_blocks == sb.ninodes \div n_inodes_per_block
        g == i_get_of(l, d, idx)
        disc_inode == [g.inode.disk_node EXCEPT !.ft = ft, !.size = 0, !.nlink = 0]
        w == i_put(l, d, Inode(idx, disc_inode))
    IN  IF n_inodes_per_block = 0 THEN Out(d, Err("panic"))
        ELSE IF idx >= (n_inodes_blocks + 1) * n_inodes_per_block
             THEN Out(d, Err("OutsideOfTheBoundaries"))
        ELSE IF idx + 1 > sb.ninodes THEN Out(d, Err("OutsideOfTheBoundaries"))
        ELSE IF SkipsInode(idx) THEN i_alloc_from(l, d, ft, idx + 1)
        ELSE IF ~g.ok THEN Out(d, Err("panic"))
        ELSE IF g.inode.disk_node.ft # TFree THEN i_alloc_from(l, d, ft, idx + 1)
        ELSE IF ~w.ret.ok THEN w
        ELSE Out(w.disk, Ok(idx))

i_alloc(l, d, ft) == i_alloc_from(l, d, ft, 0)

\* i_trunc: [disk, ret, inode], inode being the caller's inode after the call
i_trunc(l, d, inode) ==
    LET sb == sup_get(d)
        f == free_direct_blocks(d, inode.disk_node, 0, NValidBlocks(sb, inode.disk_node.size))
        cleared == [inode EXCEPT !.disk_node.size = 0,
                                 !.disk_node.direct_blocks = NoDirectBlocks]
        w == i_put(l, f.disk, cleared)
    IN  IF ~f.ret.ok THEN [disk |-> f.disk, ret |-> f.ret, inode |-> inode]
        ELSE [disk |-> w.disk, ret |-> w.ret, inode |-> cleared]

(***************************************************************************)
(* mkfs of the directory layer: as the inode layer's, with the root inode  *)
(* written where i = 0 and j = 1.                                          *)
(***************************************************************************)
RootDInode == [DInodeDefault EXCEPT !.ft = TDir, !.nlink = 1]

\* `if i == 0 && j == 1`: the slot mkfs writes the root inode to
IsRootSlot(sb, i, j) == i = 0 /\ j = 1

MkfsDirInodeBlock(sb, i) ==
    LET n_inodes_per_block == sb.block_size \div DINODE_SIZE
    IN  [x \in 0..(sb.block_size - 1) |->
            IF /\ x \div DINODE_SIZE < n_inodes_per_block
               /\ i * n_inodes_per_block + (x \div DINODE_SIZE + 1) <= sb.ninodes
            THEN IF IsRootSlot(sb, i, x \div DINODE_SIZE)
                 THEN serialize_dinode(RootDInode)[(x % DINODE_SIZE) + 1]
                 ELSE serialize_dinode(DInodeDefault)[(x % DINODE_SIZE) + 1]
            ELSE 0]

RECURSIVE mkfs_dir_blocks(_, _, _)
mkfs_dir_blocks(device, sb, i) ==
    LET n_inodes_blocks == sb.ninodes \div (sb.block_size \div DINODE_SIZE)
        inode_block == MkfsDirInodeBlock(sb, i)
    IN  IF i >= n_inodes_blocks + 1 THEN Out(device, Ok(0))
        ELSE IF ~CanWrite(device, i + 1, inode_block)
             THEN Out(<<>>, Err("FileSystemError"))
        ELSE mkfs_dir_blocks([device EXCEPT ![i + 1] = inode_block], sb, i + 1)

mkfs_dir(sb) ==
    LET s == mkfs_block(sb)
    IN  IF ~s.ret.ok THEN s ELSE mkfs_dir_blocks(s.disk, sb, 0)

mkfs_of(l, sb) == IF l = "Dir" THEN mkfs_dir(sb) ELSE mkfs(l, sb)

(***************************************************************************)
(* Specification SpecIno: mkfs of the inode or the directory layer, then   *)
(* b_alloc, i_put, i_alloc, i_free and i_trunc in any order.               *)
(***************************************************************************)
MaxOps == 3

\* one inode a block, more data blocks than datastart
SBI_WIDE == SuperBlock(7, 9, 2, 1, 5, 3, 4)

\* one inode a block, inode table at block 2
SBI_SHIFTED == SuperBlock(7, 7, 2, 2, 2, 4, 5)

\* two inodes a block, inode table at block 2
SBI_PACKED_SHIFTED == SuperBlock(14, 8, 4, 2, 2, 4, 5)

\* no inode at all: the inode region is empty
SBI_NO_INODES == SuperBlock(7, 7, 0, 1, 3, 2, 3)

InoSuperBlocks ==
    {SB_PACKED, SBI_WIDE, SBI_SHIFTED, SBI_PACKED_SHIFTED, SB_INODES_AT_ZERO, SBI_NO_INODES}

InoLayers == {"Inode", "Dir"}

LastData(sb) == sb.datastart + sb.ndatablocks - 1

\* the inodes the caller writes: a file of two blocks (the first and the last
\* data block) with no link, and a file of one block with a link
PutDInodes(sb) ==
    { DInode(TFile, 0, sb.block_size + 1,
             [n \in 0..(NDIRECT - 1) |->
                 IF n = 0 THEN sb.datastart ELSE IF n = 1 THEN LastData(sb) ELSE 0]),
      DInode(TFile, 1, 1,
             [n \in 0..(NDIRECT - 1) |-> IF n = 0 THEN sb.datastart + 1 ELSE 0]) }

\* a call that overwrote the superblock leaves nothing to go on with
PhaseAfter(d) == IF sup_get(d) = op.sb THEN "mounted" ELSE "damaged"

MkfsIno ==
    /\ phase = "unformatted"
    /\ \E l \in InoLayers : \E sb \in InoSuperBlocks :
        LET r == mkfs_of(l, sb)
        IN  /\ disk' = r.disk
            /\ ret' = r.ret
            /\ op' = Call("mkfs", 0, sb)
            /\ layer' = l
            /\ phase' = IF r.ret.ok THEN "mounted" ELSE "unformatted"
    /\ hist' = NoHist

\* the caller's loop `for i in 0..ndatablocks { b_alloc() }`, from call i on
RECURSIVE b_alloc_times(_, _, _)
b_alloc_times(d, i, n) ==
    LET r == b_alloc(d)
    IN  IF i >= n THEN Out(d, Ok(n))
        ELSE IF ~r.ret.ok THEN r
        ELSE b_alloc_times(r.disk, i + 1, n)

\* every data block is allocated, once, before any inode points to one
BAllocIno ==
    /\ phase = "mounted"
    /\ hist.live = {}
    /\ hist.nops = 0
    /\ LET r == b_alloc_times(disk, 0, op.sb.ndatablocks)
       IN  /\ disk' = r.disk
           /\ ret' = r.ret
           /\ hist' = [hist EXCEPT
                  !.live = IF r.ret.ok THEN 0..(op.sb.ndatablocks - 1) ELSE @]
    /\ op' = Call("b_alloc", 0, op.sb)
    /\ UNCHANGED <<phase, layer>>

IPut ==
    /\ phase = "mounted"
    /\ hist.nops < MaxOps
    /\ \E inum \in 0..op.sb.ninodes : \E dn \in PutDInodes(op.sb) :
        LET r == i_put(layer, disk, Inode(inum, dn))
        IN  /\ disk' = r.disk
            /\ ret' = r.ret
            /\ op' = CallOf("i_put", inum, op.sb, Inode(inum, dn), <<>>)
            /\ phase' = PhaseAfter(r.disk)
    /\ hist' = [hist EXCEPT !.nops = @ + 1, !.onlyAlloc = FALSE]
    /\ UNCHANGED layer

IAlloc ==
    /\ phase = "mounted"
    /\ hist.nops < MaxOps
    /\ \E ft \in {TFile, TDir} :
        LET r == i_alloc(layer, disk, ft)
        IN  /\ disk' = r.disk
            /\ ret' = r.ret
            /\ op' = CallOf("i_alloc", ft, op.sb, NoInode, <<>>)
            /\ phase' = PhaseAfter(r.disk)
    /\ hist' = [hist EXCEPT !.nops = @ + 1]
    /\ UNCHANGED layer

IFree ==
    /\ phase = "mounted"
    /\ hist.nops < MaxOps
    /\ \E i \in 0..op.sb.ninodes :
        LET r == i_free(layer, disk, i)
        IN  /\ disk' = r.disk
            /\ ret' = r.ret
            /\ op' = CallOf("i_free", i, op.sb, NoInode, <<>>)
            /\ phase' = PhaseAfter(r.disk)
    /\ hist' = [hist EXCEPT !.nops = @ + 1, !.onlyAlloc = FALSE]
    /\ UNCHANGED layer

\* i_trunc of an inode the caller has just read with i_get
ITrunc ==
    /\ phase = "mounted"
    /\ hist.nops < MaxOps
    /\ \E k \in 0..(op.sb.ninodes - 1) :
        /\ i_get_of(layer, disk, k).ok
        /\ LET r == i_trunc(layer, disk, i_get_of(layer, disk, k).inode)
           IN  /\ disk' = r.disk
               /\ ret' = r.ret
               /\ op' = CallOf("i_trunc", k, op.sb, i_get_of(layer, disk, k).inode, <<>>)
               /\ hist' = [hist EXCEPT !.nops = @ + 1, !.ino = r.inode, !.onlyAlloc = FALSE]
               /\ phase' = PhaseAfter(r.disk)
    /\ UNCHANGED layer

NextIno == MkfsIno \/ BAllocIno \/ IPut \/ IAlloc \/ IFree \/ ITrunc

SpecIno == Init /\ [][NextIno]_vars

\* C11: right after the directory layer's mkfs on a superblock with ninodes >= 2,
\* i_get(1) is a TDir inode with nlink = 1 and i_get(k) is TFree for every other
\* k below ninodes.
C11_DirMkfsRootInode ==
    (op.name = "mkfs" /\ ret.ok /\ layer = "Dir" /\ op.sb.ninodes >= 2) =>
        /\ i_get_dir(disk, 1).ok
        /\ i_get_dir(disk, 1).inode.disk_node.ft = TDir
        /\ i_get_dir(disk, 1).inode.disk_node.nlink = 1
        /\ \A k \in 0..(op.sb.ninodes - 1) :
              k # 1 => (i_get_dir(disk, k).ok /\ i_get_dir(disk, k).inode.disk_node.ft = TFree)

(***************************************************************************)
(* mountfs, unmountfs and sup_put; specification SpecMount.                *)
(***************************************************************************)
DevBlockSize(d) == Cardinality(DOMAIN d[0])

DevNBlocks(d) == Cardinality(DOMAIN d)

\* sb_valid divides by block_size * 8 and by block_size / DINODE_SIZE: a block
\* size below DINODE_SIZE makes it panic
SbValidPanics(sb) == sb.block_size * 8 = 0 \/ sb.block_size \div DINODE_SIZE = 0

\* the test of the device's geometry against the stored superblock
GeometryMatches(superblock, d) ==
    superblock.block_size = DevBlockSize(d) /\ superblock.nblocks = DevNBlocks(d)

mountfs(d) ==
    LET superblock == sup_get(d)
    IN  IF 0 \notin DOMAIN d \/ ~Fits(d[0], 0, SB_SIZE) THEN Out(d, Err("panic"))
        ELSE IF SbValidPanics(superblock) THEN Out(d, Err("panic"))
        ELSE IF ~sb_valid(superblock) THEN Out(d, Err("SuperBlockInvalid"))
        ELSE IF ~GeometryMatches(superblock, d)
             THEN Out(d, Err("DeviceConfigurationInvalid"))
        ELSE Out(d, Ok(0))

sup_put(d, sup) ==
    LET block == WriteAt(ZeroBlock(sup.block_size), 0, serialize_sb(sup))
    IN  IF ~Fits(ZeroBlock(sup.block_size), 0, SB_SIZE) THEN Out(d, Err("FileSystemError"))
        ELSE IF ~CanWrite(d, 0, block) THEN Out(d, Err("FileSystemError"))
        ELSE Out([d EXCEPT ![0] = block], Ok(0))

\* SB_GOOD on a device of one block more
SB_GOOD_LONGER == [SB_GOOD EXCEPT !.nblocks = @ + 1]

MountSuperBlocks == {SB_GOOD, SB_SHIFTED, SB_PACKED, SB_BAD_ORDER}

SupPutSuperBlocks == {SB_GOOD, SB_SHIFTED, SB_GOOD_LONGER, SB_BAD_ORDER, SB_PACKED}

MountLayers == {"Block", "Inode", "Dir"}

MkfsMnt ==
    /\ phase = "unformatted"
    /\ \E l \in MountLayers : \E sb \in MountSuperBlocks :
        LET r == mkfs_of(l, sb)
        IN  /\ disk' = r.disk
            /\ ret' = r.ret
            /\ op' = Call("mkfs", 0, sb)
            /\ layer' = l
            /\ phase' = IF r.ret.ok THEN "mounted" ELSE "unformatted"
    /\ hist' = NoHist

\* a device that no mkfs has written is handed to mountfs
NewBlankDevice ==
    /\ phase = "unformatted"
    /\ \E l \in MountLayers : \E sb \in {SB_GOOD, SB_PACKED} :
        /\ disk' = NewDevice(sb.block_size, sb.nblocks)
        /\ op' = Call("Device::new", 0, sb)
        /\ layer' = l
    /\ ret' = Ok(0)
    /\ phase' = "unmounted"
    /\ hist' = NoHist

SupPut ==
    /\ phase = "mounted"
    /\ hist.nput < MaxPut
    /\ \E sup \in SupPutSuperBlocks :
        LET r == sup_put(disk, sup)
        IN  /\ disk' = r.disk
            /\ ret' = r.ret
            /\ op' = Call("sup_put", 0, sup)
    /\ hist' = [hist EXCEPT !.nput = @ + 1]
    /\ UNCHANGED <<phase, layer>>

Unmountfs ==
    /\ phase = "mounted"
    /\ phase' = "unmounted"
    /\ op' = Call("unmountfs", 0, NoSB)
    /\ ret' = Ok(0)
    /\ UNCHANGED <<disk, layer, hist>>

Mountfs ==
    /\ phase = "unmounted"
    /\ op.name # "mountfs"
    /\ LET r == mountfs(disk)
       IN  /\ disk' = r.disk
           /\ ret' = r.ret
           /\ phase' = IF r.ret.ok THEN "mounted" ELSE "unmounted"
    /\ op' = Call("mountfs", 0, NoSB)
    /\ UNCHANGED <<layer, hist>>

NextMount == MkfsMnt \/ NewBlankDevice \/ SupPut \/ Unmountfs \/ Mountfs

SpecMount == Init /\ [][NextMount]_vars

\* the superblock block 0 holds, read without the code (defined for every block)
StoredSuperBlock(d) == deserialize_sb(d[0])

\* the stored superblock fails sb_valid: its blocks hold no inode, or sb_valid
\* returns false
StoredInvalid(d) ==
    LET sb == StoredSuperBlock(d)
    IN  sb.block_size < DINODE_SIZE \/ ~sb_valid(sb)

\* C12: mountfs returns SuperBlockInvalid when the stored superblock is not
\* valid, otherwise DeviceConfigurationInvalid when block_size or nblocks of the
\* device differ from the stored ones, otherwise a handle; it never writes, so
\* mkfs, unmountfs, mountfs gives a handle over the same contents.
C12_MountfsChecks ==
    [][op'.name = "mountfs" =>
        /\ disk' = disk
        /\ StoredInvalid(disk) => (~ret'.ok /\ ret'.err = "SuperBlockInvalid")
        /\ (~StoredInvalid(disk) /\ ~GeometryMatches(StoredSuperBlock(disk), disk)) =>
              (~ret'.ok /\ ret'.err = "DeviceConfigurationInvalid")
        /\ (~StoredInvalid(disk) /\ GeometryMatches(StoredSuperBlock(disk), disk)) =>
              (ret'.ok /\ phase' = "mounted")]_vars

\* C13: i_put(x) with an in-range inum, then i_get(x.inum), returns x, and
\* i_get(k) is what it was for every other k below ninodes.
C13_PutGetRoundTrip ==
    [][(op'.name = "i_put" /\ op'.i < op'.sb.ninodes) =>
        /\ ret'.ok
        /\ i_get_of(layer, disk', op'.i) = IGetOk(op'.ino)
        /\ \A k \in 0..(op'.sb.ninodes - 1) :
              k # op'.i => i_get_of(layer, disk', k) = i_get_of(layer, disk, k)]_vars

\* the inodes of [1, ninodes) whose on-disk ft is TFree
FreeInums(l, d, sb) ==
    {k \in 1..(sb.ninodes - 1) :
        i_get_of(l, d, k).ok /\ i_get_of(l, d, k).inode.disk_node.ft = TFree}

NamedBlocks(sb, dn) ==
    {dn.direct_blocks[n] : n \in {m \in 0..(NDIRECT - 1) :
        m < Ceil(dn.size, sb.block_size) /\ dn.direct_blocks[m] # 0}}

\* every block the inode names is an allocated data block
NamesAllocatedBlocks(d, dn) ==
    \A a \in NamedBlocks(sup_get(d), dn) :
        a \in DataRegion(sup_get(d)) /\ BitmapBit(d, a - sup_get(d).datastart) = 1

\* C16: i_free(k) on an in-use inode with nlink = 0 sets its ft to TFree, clears
\* all direct_blocks and clears in the bitmap exactly the bits d - datastart of
\* the non-zero addresses d among its first ceil(size / block_size) pointers,
\* every other bitmap bit unchanged, ndatablocks > datastart included.
C16_FreeReleasesNamedBlocks ==
    [][(/\ op'.name = "i_free"
        /\ op'.i < op'.sb.ninodes
        /\ i_get_of(layer, disk, op'.i).ok
        /\ i_get_of(layer, disk, op'.i).inode.disk_node.ft # TFree
        /\ i_get_of(layer, disk, op'.i).inode.disk_node.nlink = 0
        /\ NamesAllocatedBlocks(disk, i_get_of(layer, disk, op'.i).inode.disk_node)) =>
        LET dn == i_get_of(layer, disk, op'.i).inode.disk_node
            after == i_get_of(layer, disk', op'.i)
        IN  /\ ret'.ok
            /\ after.ok
            /\ after.inode.disk_node.ft = TFree
            /\ after.inode.disk_node.direct_blocks = NoDirectBlocks
            /\ \A k \in BitmapPositions(disk) :
                  BitmapBit(disk', k) =
                      IF k + op'.sb.datastart \in NamedBlocks(op'.sb, dn)
                      THEN 0 ELSE BitmapBit(disk, k)]_vars

\* C17: i_free(k) fails with InodeAlreadyDeallocated when inode k is TFree and
\* with OutsideOfTheBoundaries when k >= ninodes, and returns success when inode
\* k is in use with nlink > 0; in all three cases the whole disk is unchanged,
\* so an inode only goes back to TFree through i_free when its nlink is 0.
C17_FreeErrorsChangeNothing ==
    [][op'.name = "i_free" =>
        LET g == i_get_of(layer, disk, op'.i)
            dn == g.inode.disk_node
        IN  /\ op'.i >= op'.sb.ninodes =>
                (~ret'.ok /\ ret'.err = "OutsideOfTheBoundaries" /\ disk' = disk)
            /\ (op'.i < op'.sb.ninodes /\ g.ok /\ dn.ft = TFree) =>
                (~ret'.ok /\ ret'.err = "InodeAlreadyDeallocated" /\ disk' = disk)
            /\ (op'.i < op'.sb.ninodes /\ g.ok /\ dn.ft # TFree /\ dn.nlink > 0) =>
                (ret'.ok /\ disk' = disk)
            /\ \A k \in 0..(op'.sb.ninodes - 1) :
                  (/\ i_get_of(layer, disk, k).ok
                   /\ i_get_of(layer, disk, k).inode.disk_node.ft # TFree
                   /\ i_get_of(layer, disk', k).ok
                   /\ i_get_of(layer, disk', k).inode.disk_node.ft = TFree) =>
                      (k = op'.i /\ i_get_of(layer, disk, k).inode.disk_node.nlink = 0)]_vars

\* C18: i_trunc(inode) frees in the bitmap exactly the data blocks named by the
\* non-zero entries among the inode's first ceil(size / block_size) pointers,
\* sets size = 0 and all direct_blocks = 0 in the caller's inode and on disk,
\* and leaves ft and nlink unchanged.
C18_TruncReleasesNamedBlocks ==
    [][(/\ op'.name = "i_trunc"
        /\ NamesAllocatedBlocks(disk, op'.ino.disk_node)) =>
        LET dn == op'.ino.disk_node
            cleared == [dn EXCEPT !.size = 0, !.direct_blocks = NoDirectBlocks]
        IN  /\ ret'.ok
            /\ hist'.ino = Inode(op'.i, cleared)
            /\ i_get_of(layer, disk', op'.i) = IGetOk(Inode(op'.i, cleared))
            /\ \A k \in BitmapPositions(disk) :
                  BitmapBit(disk', k) =
                      IF k + op'.sb.datastart \in NamedBlocks(op'.sb, dn)
                      THEN 0 ELSE BitmapBit(disk, k)]_vars

(***************************************************************************)
(* Directory entries.  A DirEntry is an inum and DIRNAME_SIZE characters;  *)
(* a character is a code, 0 being '\0'.  A name is a sequence of codes.     *)
(* Codes 1 and 2 stand for ASCII letters or digits, 3 for an alphanumeric   *)
(* character of two UTF-8 bytes, 4 for an ASCII character that is not       *)
(* alphanumeric.                                                            *)
(***************************************************************************)
DIRNAME_SIZE == 3
DIRENTRY_SIZE == 4

\* the codes for which char::is_alphanumeric holds
IsAlphanumeric(c) == c \in {1, 2, 3}

DirEntry(inum, name) == [inum |-> inum, name |-> name]

\* `Default::default()` of the name: all '\0'
NoName == [n \in 0..(DIRNAME_SIZE - 1) |-> 0]

serialize_de(de) == <<de.inum>> \o [n \in 1..DIRNAME_SIZE |-> de.name[n - 1]]

deserialize_de(blk, off) ==
    DirEntry(blk[off], [n \in 0..(DIRNAME_SIZE - 1) |-> blk[off + 1 + n]])

Some(de) == [some |-> TRUE, de |-> de]

None == [some |-> FALSE, de |-> DirEntry(0, NoName)]

\* the bytes of the UTF-8 encoding of a character
Utf8Len(c) == IF c = 3 THEN 2 ELSE 1

\* `name.len()`: the length of a str in bytes
RECURSIVE str_len(_)
str_len(name) ==
    IF name = <<>> THEN 0 ELSE Utf8Len(Head(name)) + str_len(Tail(name))

\* `name.len() >= DIRNAME_SIZE`
NameTooLong(name) == str_len(name) >= DIRNAME_SIZE

set_name_str(de, name) ==
    IF str_len(name) = 0 THEN None
    ELSE IF NameTooLong(name) THEN None
    ELSE IF \E n \in 1..Len(name) : ~IsAlphanumeric(name[n]) THEN None
    ELSE Some([de EXCEPT !.name =
                  [n \in 0..(DIRNAME_SIZE - 1) |-> IF n < Len(name) THEN name[n + 1] ELSE 0]])

\* the characters before the first '\0'
get_name_str(de) ==
    LET end == Min({n \in 0..(DIRNAME_SIZE - 1) : de.name[n] = 0} \cup {DIRNAME_SIZE})
    IN  [n \in 1..end |-> de.name[n - 1]]

new_de(inum, name) == set_name_str(DirEntry(inum, NoName), name)

(***************************************************************************)
(* dirlookup and dirlink.                                                  *)
(***************************************************************************)
LookupOk(ino, off) == [ok |-> TRUE, err |-> "none", inode |-> ino, off |-> off]

LookupErr(e) == [ok |-> FALSE, err |-> e, inode |-> NoInode, off |-> 0]

\* sb.block_size - (sb.block_size % DIRENTRY_SIZE): the bytes of a block that
\* hold whole entries
EntryBytes(sb) == sb.block_size - (sb.block_size % DIRENTRY_SIZE)

\* (size as f64 / (block_size - block_size % DIRENTRY_SIZE) as f64).ceil()
DirNValidBlocks(sb, size) ==
    IF EntryBytes(sb) = 0 THEN (IF size = 0 THEN 0 ELSE NDIRECT + 1)
    ELSE Ceil(size, EntryBytes(sb))

\* `while *DIRENTRY_SIZE + offset < sb.block_size`: the slots dirlookup reads
LookupReads(sb, offset) == DIRENTRY_SIZE + offset < sb.block_size

\* `while offset + *DIRENTRY_SIZE <= sb.block_size`: the slots dirlink reads
LinkReads(sb, offset) == offset + DIRENTRY_SIZE <= sb.block_size

\* the search of dirlookup from slot offset of the i-th block
RECURSIVE dirlookup_from(_, _, _, _, _)
dirlookup_from(d, inode, name, i, offset) ==
    LET sb == sup_get(d)
        a == inode.disk_node.direct_blocks[i]
        current_dir_entry == deserialize_de(d[a], offset)
        searched_inode == i_get_dir(d, current_dir_entry.inum)
    IN  IF i >= DirNValidBlocks(sb, inode.disk_node.size)
        THEN LookupErr("SearchedDirectoryDoesntExist")
        ELSE IF i >= NDIRECT THEN LookupErr("panic")
        ELSE IF a = 0 THEN LookupErr("SearchedDirectoryDoesntExist")
        ELSE IF a \notin DOMAIN d THEN LookupErr("FileSystemError")
        ELSE IF ~LookupReads(sb, offset) THEN dirlookup_from(d, inode, name, i + 1, 0)
        ELSE IF get_name_str(current_dir_entry) = name
             THEN (IF searched_inode.ok
                   THEN LookupOk(searched_inode.inode, offset + i * EntryBytes(sb))
                   ELSE LookupErr(searched_inode.err))
        ELSE dirlookup_from(d, inode, name, i, offset + DIRENTRY_SIZE)

dirlookup(d, inode, name) ==
    IF inode.disk_node.ft # TDir THEN LookupErr("InodeNotDirectory")
    ELSE dirlookup_from(d, inode, name, 0, 0)

LinkOut(d, r, inode) == [disk |-> d, ret |-> r, inode |-> inode]

\* `if inum != inode.inum`: the link counts unless it is the directory's own
LinkCountsAlways(inum, dir_inum) == TRUE

LinkCounts(inum, dir_inum) == inum # dir_inum

\* the end of both paths of dirlink: i_put of the directory, then the link
\* count of the target; off is the offset dirlink returns
dirlink_write_back(d, inode, inum, off) ==
    LET w == i_put("Dir", d, inode)
        g == i_get_dir(w.disk, inum)
        ref_inode == [g.inode EXCEPT !.disk_node.nlink = @ + 1]
        w2 == i_put("Dir", w.disk, ref_inode)
    IN  IF ~w.ret.ok THEN LinkOut(w.disk, w.ret, inode)
        ELSE IF ~LinkCounts(inum, inode.inum) THEN LinkOut(w.disk, Ok(off), inode)
        ELSE IF ~g.ok THEN LinkOut(w.disk, Err("panic"), inode)
        ELSE IF g.inode.disk_node.nlink + 1 > 255 THEN LinkOut(w.disk, Err("panic"), inode)
        ELSE IF ~w2.ret.ok THEN LinkOut(w2.disk, w2.ret, inode)
        ELSE LinkOut(w2.disk, Ok(off), inode)

\* the block dirlink reads and writes for the pointer a
LinkBlock(sb, a) == (a % sb.datastart) + sb.datastart

\* no slot is free: a new block takes the entry at offset 0
dirlink_new_block(d, inode, de, inum) ==
    LET sb == sup_get(d)
        n_valid_blocks == DirNValidBlocks(sb, inode.disk_node.size)
        r == b_alloc(d)
        no == r.ret.val + sb.datastart
        written == [r.disk EXCEPT ![no] = WriteAt(r.disk[no], 0, serialize_de(de))]
        grown == [inode EXCEPT !.disk_node.direct_blocks[n_valid_blocks] = no,
                               !.disk_node.size = @ + DIRENTRY_SIZE]
    IN  IF ~r.ret.ok THEN LinkOut(r.disk, r.ret, inode)
        ELSE IF no \notin DOMAIN r.disk THEN LinkOut(r.disk, Err("FileSystemError"), inode)
        ELSE IF ~Fits(r.disk[no], 0, DIRENTRY_SIZE)
             THEN LinkOut(r.disk, Err("FileSystemError"), inode)
        ELSE IF n_valid_blocks >= NDIRECT THEN LinkOut(written, Err("panic"), inode)
        ELSE dirlink_write_back(written, grown, inum, grown.disk_node.size - DIRENTRY_SIZE)

\* the search of dirlink for a slot with inum = 0, from slot offset of the i-th
\* block
RECURSIVE dirlink_from(_, _, _, _, _, _)
dirlink_from(d, inode, de, inum, i, offset) ==
    LET sb == sup_get(d)
        no == LinkBlock(sb, inode.disk_node.direct_blocks[i])
        off == offset + i * EntryBytes(sb)
        written == [d EXCEPT ![no] = WriteAt(d[no], offset, serialize_de(de))]
        grown == IF inode.disk_node.size < off + DIRENTRY_SIZE
                 THEN [inode EXCEPT !.disk_node.size = @ + DIRENTRY_SIZE]
                 ELSE inode
    IN  IF i >= DirNValidBlocks(sb, inode.disk_node.size)
        THEN dirlink_new_block(d, inode, de, inum)
        ELSE IF i >= NDIRECT THEN LinkOut(d, Err("panic"), inode)
        ELSE IF sb.datastart = 0 THEN LinkOut(d, Err("panic"), inode)
        ELSE IF no \notin DOMAIN d THEN LinkOut(d, Err("FileSystemError"), inode)
        ELSE IF ~LinkReads(sb, offset) THEN dirlink_from(d, inode, de, inum, i + 1, 0)
        ELSE IF deserialize_de(d[no], offset).inum = 0
             THEN dirlink_write_back(written, grown, inum, off)
        ELSE dirlink_from(d, inode, de, inum, i, offset + DIRENTRY_SIZE)

\* `inum_inode.unwrap().disk_node.ft == FType::TFree`: the target is not in use
TargetNotInUseNever(ft) == FALSE

TargetNotInUse(ft) == ft = TFree

dirlink(d, inode, name, inum) ==
    LET inum_inode == i_get_dir(d, inum)
        dir_entry == new_de(inum, name)
    IN  IF inode.disk_node.ft # TDir THEN LinkOut(d, Err("InodeNotDirectory"), inode)
        ELSE IF dirlookup(d, inode, name).ok
             THEN LinkOut(d, Err("DirEntryNameAlreadyExists"), inode)
        ELSE IF dirlookup(d, inode, name).err = "panic" THEN LinkOut(d, Err("panic"), inode)
        ELSE IF ~inum_inode.ok THEN LinkOut(d, Err("InodeInitializationError"), inode)
        ELSE IF TargetNotInUse(inum_inode.inode.disk_node.ft)
             THEN LinkOut(d, Err("InodeNotInUse"), inode)
        ELSE IF ~dir_entry.some THEN LinkOut(d, Err("panic"), inode)
        ELSE dirlink_from(d, inode, dir_entry.de, inum, 0, 0)

(***************************************************************************)
(* The directory layer in use: mkfs, some data blocks taken by files,      *)
(* i_alloc, and dirlink on an inode the caller has just read.              *)
(***************************************************************************)
MaxDirOps == 3

\* two inodes a block, so that mkfs writes the root; three entries a block
SBD_ROOT == SuperBlock(14, 6, 3, 1, 2, 3, 4)

\* block_size is twice DIRENTRY_SIZE
SBD_EXACT == SuperBlock(8, 7, 3, 1, 2, 4, 5)

\* one entry a block, ndatablocks > datastart
SBD_WIDE == SuperBlock(7, 12, 3, 1, 7, 4, 5)

DirSuperBlocks == {SBD_ROOT, SBD_EXACT, SBD_WIDE}

\* three valid names and the empty one
DirNames == {<<1>>, <<2>>, <<1, 2>>, <<>>}

\* the data blocks other files hold before the first link is made
TakenBlocks(sb) == Min({sb.datastart, sb.ndatablocks - 1})

MkfsDirFS ==
    /\ phase = "unformatted"
    /\ \E sb \in DirSuperBlocks :
        LET r == mkfs_dir(sb)
        IN  /\ disk' = r.disk
            /\ ret' = r.ret
            /\ op' = Call("mkfs", 0, sb)
            /\ phase' = IF r.ret.ok THEN "mounted" ELSE "unformatted"
    /\ layer' = "Dir"
    /\ hist' = NoHist

BAllocDir ==
    /\ phase = "mounted"
    /\ hist.live = {}
    /\ hist.nops = 0
    /\ LET r == b_alloc_times(disk, 0, TakenBlocks(op.sb))
       IN  /\ disk' = r.disk
           /\ ret' = r.ret
           /\ hist' = [hist EXCEPT
                  !.live = IF r.ret.ok THEN 0..(TakenBlocks(op.sb) - 1) ELSE @]
    /\ op' = Call("b_alloc", 0, op.sb)
    /\ UNCHANGED <<phase, layer>>

IAllocDir ==
    /\ phase = "mounted"
    /\ hist.nops < MaxDirOps
    /\ \E ft \in {TFile, TDir} :
        LET r == i_alloc("Dir", disk, ft)
        IN  /\ disk' = r.disk
            /\ ret' = r.ret
            /\ op' = CallOf("i_alloc", ft, op.sb, NoInode, <<>>)
    /\ hist' = [hist EXCEPT !.nops = @ + 1]
    /\ UNCHANGED <<phase, layer>>

\* dirlink(&mut inode, name, inum) on the inode i_get(dir) returned
Dirlink ==
    /\ phase = "mounted"
    /\ layer = "Dir"
    /\ hist.nops < MaxDirOps
    /\ \E dir \in 0..(op.sb.ninodes - 1) : \E name \in DirNames : \E inum \in 0..op.sb.ninodes :
        /\ i_get_dir(disk, dir).ok
        /\ LET r == dirlink(disk, i_get_dir(disk, dir).inode, name, inum)
           IN  /\ disk' = r.disk
               /\ ret' = r.ret
               /\ op' = CallOf("dirlink", inum, op.sb, i_get_dir(disk, dir).inode, name)
               /\ hist' = [hist EXCEPT
                      !.nops = @ + 1,
                      !.ino = r.inode,
                      !.links = IF r.ret.ok
                                THEN @ \cup {[dir |-> dir, name |-> name, k |-> inum,
                                              o |-> r.ret.val]}
                                ELSE @]
    /\ UNCHANGED <<phase, layer>>

NextDir == MkfsDirFS \/ BAllocDir \/ IAllocDir \/ Dirlink

SpecDir == Init /\ [][NextDir]_vars

\* C19: once dirlink(dir, name, k) has succeeded with offset o, dirlookup(dir,
\* name) returns (i_get(k), o), right afterwards and after any further
\* successful dirlink, block_size an exact multiple of DIRENTRY_SIZE and
\* ndatablocks > datastart included.
C19_LinkThenLookup ==
    \A l \in hist.links :
        /\ i_get_dir(disk, l.dir).ok
        /\ i_get_dir(disk, l.k).ok
        /\ dirlookup(disk, i_get_dir(disk, l.dir).inode, l.name) =
               LookupOk(i_get_dir(disk, l.k).inode, l.o)

\* the on-disk link count of inode k
NlinkOf(d, k) == i_get_dir(d, k).inode.disk_node.nlink

\* the links made so far to inode k from another directory
LinksTo(links, k) == {l \in links : l.k = k /\ l.dir # k}

NextReserved == MkfsIno \/ IAlloc \/ IFree \/ ITrunc \/ Dirlink

SpecReserved == Init /\ [][NextReserved]_vars

\* C15: in every state reached from mkfs by i_alloc, i_free, i_trunc and dirlink,
\* inode 0 has ft = TFree, i_alloc has not returned 0, i_free(0) has released
\* nothing and dirlink has created no entry whose target inum is 0.
C15_InodeZeroReserved ==
    [][(phase' = "mounted" /\ op'.sb.ninodes >= 1) =>
        /\ i_get_of(layer', disk', 0).ok
        /\ i_get_of(layer', disk', 0).inode.disk_node.ft = TFree
        /\ (op'.name = "i_alloc" /\ ret'.ok) => ret'.val # 0
        /\ (op'.name = "i_free" /\ op'.i = 0) => disk' = disk
        /\ (op'.name = "dirlink" /\ ret'.ok) => op'.i # 0]_vars

\* the successful links made so far in the directory dir
LinksIn(links, dir) == {l \in links : l.dir = dir}

\* C21: in a directory that started empty, the j-th successful dirlink (from 0)
\* returns j * DIRENTRY_SIZE and leaves size = (j + 1) * DIRENTRY_SIZE in the
\* caller's inode and on disk, and a data block is allocated exactly when every
\* slot of the blocks the directory has is occupied.
C21_LinkOffsets ==
    [][(op'.name = "dirlink" /\ ret'.ok) =>
        LET dir == op'.ino.inum
            j == Cardinality(LinksIn(hist.links, dir))
            slots == op'.sb.block_size \div DIRENTRY_SIZE
        IN  /\ ret'.val = j * DIRENTRY_SIZE
            /\ hist'.ino.disk_node.size = (j + 1) * DIRENTRY_SIZE
            /\ i_get_dir(disk', dir).inode.disk_node.size = (j + 1) * DIRENTRY_SIZE
            /\ (FreeIndices(disk') # FreeIndices(disk)) <=> (j % slots = 0)]_vars

\* C22: dirlink(dir, name, inum) fails with InodeNotDirectory when dir.ft is not
\* TDir, otherwise with DirEntryNameAlreadyExists when dirlookup(dir, name)
\* succeeds, otherwise with InodeNotInUse when inode inum is TFree; in each case
\* the disk and the caller's dir inode are unchanged.
C22_LinkErrors ==
    [][op'.name = "dirlink" =>
        LET dir == op'.ino
            found == dirlookup(disk, dir, op'.nm).ok
            target == i_get_dir(disk, op'.i)
            unchanged == ~ret'.ok /\ disk' = disk /\ hist'.ino = dir
        IN  /\ dir.disk_node.ft # TDir =>
                (ret'.err = "InodeNotDirectory" /\ unchanged)
            /\ (dir.disk_node.ft = TDir /\ found) =>
                (ret'.err = "DirEntryNameAlreadyExists" /\ unchanged)
            /\ (dir.disk_node.ft = TDir /\ ~found /\ target.ok
                    /\ target.inode.disk_node.ft = TFree) =>
                (ret'.err = "InodeNotInUse" /\ unchanged)]_vars

\* C22 witness: a name that an earlier dirlink put into the directory is refused
C22_Witness ==
    /\ op.name = "dirlink" /\ ret.err = "DirEntryNameAlreadyExists"
    /\ \E l \in hist.links : l.dir = op.ino.inum /\ l.name = op.nm
    /\ i_get_dir(disk, op.ino.inum).inode = op.ino

(***************************************************************************)
(* Lookups in the directories the links built.                             *)
(***************************************************************************)
\* dirlookup(&inode, name) on the inode i_get(dir) returned
Dirlookup ==
    /\ phase = "mounted"
    /\ layer = "Dir"
    /\ \E dir \in 0..(op.sb.ninodes - 1) : \E name \in DirNames :
        /\ i_get_dir(disk, dir).ok
        /\ LET r == dirlookup(disk, i_get_dir(disk, dir).inode, name)
           IN  /\ ret' = IF r.ok THEN Ok(r.off) ELSE Err(r.err)
               /\ op' = CallOf("dirlookup", 0, op.sb, i_get_dir(disk, dir).inode, name)
               /\ hist' = [hist EXCEPT !.ino = r.inode]
    /\ UNCHANGED <<disk, phase, layer>>

NextLookup == MkfsDirFS \/ BAllocDir \/ IAllocDir \/ Dirlink \/ Dirlookup

SpecLookup == Init /\ [][NextLookup]_vars

\* the byte offsets of the entries within the size of the directory
EntryOffsets(inode) ==
    {o \in 0..(inode.disk_node.size - 1) : o % DIRENTRY_SIZE = 0}

\* the entry at byte offset o of the logical stream of the directory: slot
\* o % usable of the assigned block number o \div usable
EntryAt(d, sb, inode, o) ==
    deserialize_de(d[inode.disk_node.direct_blocks[o \div EntryBytes(sb)]],
                   o % EntryBytes(sb))

\* the offsets within the size of the directory whose decoded name is name
Matches(d, sb, inode, name) ==
    {o \in EntryOffsets(inode) :
        /\ o \div EntryBytes(sb) < NDIRECT
        /\ inode.disk_node.direct_blocks[o \div EntryBytes(sb)] \in DOMAIN d
        /\ get_name_str(EntryAt(d, sb, inode, o)) = name}

\* C23: dirlookup(dir, name) fails with InodeNotDirectory when dir.ft is not
\* TDir, and with SearchedDirectoryDoesntExist when no entry within dir.size of
\* dir's assigned blocks has a decoded name equal to name; a successful result
\* returns the absolute byte offset of the matching entry within the
\* directory's logical stream.
C23_LookupResults ==
    [][op'.name = "dirlookup" =>
        LET dir == op'.ino
            found == Matches(disk, op'.sb, dir, op'.nm)
        IN  /\ dir.disk_node.ft # TDir => ret'.err = "InodeNotDirectory"
            /\ (dir.disk_node.ft = TDir /\ found = {}) =>
                ret'.err = "SearchedDirectoryDoesntExist"
            /\ ret'.ok => ret'.val \in found]_vars

(***************************************************************************)
(* The name functions on their own: a caller holds a directory entry and   *)
(* hands names to new_de and set_name_str.                                 *)
(***************************************************************************)
MaxNameLen == 3

\* '\0', two ASCII alphanumerics, a two-byte alphanumeric, a non-alphanumeric
Chars == 0..4

RECURSIVE NamesOfLen(_)
NamesOfLen(n) ==
    IF n = 0 THEN {<<>>}
    ELSE {Append(s, c) : s \in NamesOfLen(n - 1), c \in Chars}

Names == UNION {NamesOfLen(n) : n \in 0..MaxNameLen}

\* the entry the caller holds lives in ret.val
InitName ==
    /\ disk = <<>>
    /\ phase = "names"
    /\ layer = "Dir"
    /\ op = Call("none", 0, NoSB)
    /\ ret = Ok(DirEntry(0, NoName))
    /\ hist = NoHist

NewDe ==
    /\ phase = "names"
    /\ \E inum \in 0..1 : \E name \in Names :
        LET r == new_de(inum, name)
        IN  /\ ret' = [ok |-> r.some, val |-> IF r.some THEN r.de ELSE ret.val,
                       err |-> "none"]
            /\ op' = CallOf("new_de", inum, NoSB, NoInode, name)
    /\ UNCHANGED <<disk, phase, layer, hist>>

SetNameStr ==
    /\ phase = "names"
    /\ \E name \in Names :
        LET r == set_name_str(ret.val, name)
        IN  /\ ret' = [ok |-> r.some, val |-> IF r.some THEN r.de ELSE ret.val,
                       err |-> "none"]
            /\ op' = CallOf("set_name_str", ret.val.inum, NoSB, NoInode, name)
    /\ UNCHANGED <<disk, phase, layer, hist>>

NextName == NewDe \/ SetNameStr

SpecName == InitName /\ [][NextName]_vars

\* name followed by '\0' up to DIRNAME_SIZE characters
Padded(name) ==
    [n \in 0..(DIRNAME_SIZE - 1) |-> IF n < Len(name) THEN name[n + 1] ELSE 0]

\* C24: new_de(inum, name) and set_name_str(de, name) return none exactly when
\* name is empty, longer than DIRNAME_SIZE - 1 characters, or contains a
\* non-alphanumeric character (leaving de unchanged in that case); otherwise the
\* entry's name field is name followed by NUL padding to DIRNAME_SIZE, and
\* get_name_str of the result equals name.
C24_NameRules ==
    [][op'.name \in {"new_de", "set_name_str"} =>
        LET name == op'.nm
            refused == \/ Len(name) = 0
                       \/ Len(name) > DIRNAME_SIZE - 1
                       \/ \E n \in 1..Len(name) : ~IsAlphanumeric(name[n])
        IN  /\ ret'.ok <=> ~refused
            /\ (~ret'.ok /\ op'.name = "set_name_str") => ret'.val = ret.val
            /\ ret'.ok =>
                /\ ret'.val.name = Padded(name)
                /\ ret'.val.inum = op'.i
                /\ get_name_str(ret'.val) = name]_vars

(***************************************************************************)
(* i_read and i_write of RWInodeFS.  Its block and inode functions are     *)
(* those of the inode layer.  A Buffer is a sequence of bytes.             *)
(***************************************************************************)
WriteOut(d, r, inode) == [disk |-> d, ret |-> r, inode |-> inode]

ReadOut(r, buf) == [ret |-> r, buf |-> buf]

\* `&buf.contents_as_ref()[a..b]` panics unless a <= b <= len
SliceOk(buf, a, b) == a <= b /\ b <= Len(buf)

\* `buf.write_data(&data, 0)`
BufWrite(buf, data) ==
    [j \in 1..Len(buf) |-> IF j <= Len(data) THEN data[j] ELSE buf[j]]

\* `direct_blocks[i] % sb.datastart + sb.datastart`: the block i_read and
\* i_write take for the i-th block of the inode
RWBlock(sb, a) == (a % sb.datastart) + sb.datastart

\* the end of i_write: a new block takes buf[starting_point..n]
i_write_alloc(d, inode, buf, n, starting_point) ==
    LET sb == sup_get(d)
        n_valid_blocks == NValidBlocks(sb, inode.disk_node.size)
        r == b_alloc(d)
        no == r.ret.val + sb.datastart
        current_data == SubSeq(buf, starting_point + 1, n)
        w == b_put(r.disk, no, WriteAt(r.disk[no], 0, current_data))
        grown == [inode EXCEPT !.disk_node.direct_blocks[n_valid_blocks] = no,
                               !.disk_node.size = @ + Len(current_data)]
        p == i_put("Inode", w.disk, grown)
    IN  IF ~r.ret.ok THEN WriteOut(r.disk, r.ret, inode)
        ELSE IF no \notin DOMAIN r.disk THEN WriteOut(r.disk, Err("FileSystemError"), inode)
        ELSE IF ~SliceOk(buf, starting_point, n) THEN WriteOut(r.disk, Err("panic"), inode)
        ELSE IF ~Fits(r.disk[no], 0, Len(current_data))
             THEN WriteOut(r.disk, Err("APIError"), inode)
        ELSE IF ~w.ret.ok THEN WriteOut(w.disk, w.ret, inode)
        ELSE IF n_valid_blocks >= NDIRECT THEN WriteOut(w.disk, Err("panic"), inode)
        ELSE WriteOut(p.disk, p.ret, grown)

\* the loop of i_write over the blocks the inode has, from block i
RECURSIVE i_write_from(_, _, _, _, _, _, _, _)
i_write_from(d, inode, buf, off, n, i, starting_point, current_n) ==
    LET sb == sup_get(d)
        offset == IF i = off \div sb.block_size THEN off % sb.block_size ELSE 0
        a == RWBlock(sb, inode.disk_node.direct_blocks[i])
        rest == sb.block_size - offset < current_n
        end == IF rest THEN sb.block_size - offset ELSE n
        current_data == SubSeq(buf, starting_point + 1, end)
        w == b_put(d, a, WriteAt(d[a], offset, current_data))
    IN  IF i >= NValidBlocks(sb, inode.disk_node.size)
        THEN i_write_alloc(d, inode, buf, n, starting_point)
        ELSE IF i >= NDIRECT THEN WriteOut(d, Err("panic"), inode)
        ELSE IF a \notin DOMAIN d THEN WriteOut(d, Err("FileSystemError"), inode)
        ELSE IF ~SliceOk(buf, starting_point, end) THEN WriteOut(d, Err("panic"), inode)
        ELSE IF ~Fits(d[a], offset, Len(current_data)) THEN WriteOut(d, Err("APIError"), inode)
        ELSE IF ~w.ret.ok THEN WriteOut(w.disk, w.ret, inode)
        ELSE IF rest
             THEN i_write_from(w.disk, inode, buf, off, n, i + 1,
                               starting_point + (sb.block_size - offset),
                               current_n - (sb.block_size - offset))
        ELSE IF current_n = 0 THEN WriteOut(w.disk, Ok(0), inode)
        ELSE i_write_from(w.disk, inode, buf, off, n, i + 1, n, current_n)

\* `inode.disk_node.size < off`
OffsetOutsideNever(size, off) == FALSE

OffsetOutside(size, off) == size < off

\* i_write: [disk, ret, inode], inode being the caller's inode after the call
i_write(d, inode, buf, off, n) ==
    LET sb == sup_get(d)
    IN  IF OffsetOutside(inode.disk_node.size, off)
        THEN WriteOut(d, Err("OffsetOutsideOfInode"), inode)
        ELSE IF sb.block_size = 0 THEN WriteOut(d, Err("panic"), inode)
        ELSE i_write_from(d, inode, buf, off, n, off \div sb.block_size, 0, n)

\* the loop of i_read from block i, buff_vector holding the bytes read so far
RECURSIVE i_read_from(_, _, _, _, _, _, _, _)
i_read_from(d, inode, buf, off, n, i, current_n, buff_vector) ==
    LET sb == sup_get(d)
        offset == IF i = off \div sb.block_size THEN off % sb.block_size ELSE 0
        a == RWBlock(sb, inode.disk_node.direct_blocks[i])
        rest == sb.block_size - offset < current_n
        len == IF rest THEN sb.block_size - offset ELSE current_n
        data == [j \in 1..len |-> d[a][offset + j - 1]]
        read == buff_vector \o data
    IN  IF i >= NValidBlocks(sb, inode.disk_node.size)
        THEN (IF Len(buff_vector) > Len(buf) THEN ReadOut(Err("APIError"), buf)
              ELSE ReadOut(Ok(n - current_n), BufWrite(buf, buff_vector)))
        ELSE IF i >= NDIRECT THEN ReadOut(Err("panic"), buf)
        ELSE IF a \notin DOMAIN d THEN ReadOut(Err("FileSystemError"), buf)
        ELSE IF ~Fits(d[a], offset, len) THEN ReadOut(Err("APIError"), buf)
        ELSE IF rest
             THEN i_read_from(d, inode, buf, off, n, i + 1, current_n - len, read)
        ELSE IF Len(read) > Len(buf) THEN ReadOut(Err("APIError"), buf)
        ELSE ReadOut(Ok(n), BufWrite(buf, read))

\* i_read: [ret, buf], buf being the caller's buffer after the call
i_read(d, inode, buf, off, n) ==
    LET sb == sup_get(d)
    IN  IF OffsetOutside(inode.disk_node.size, off)
        THEN ReadOut(Err("OffsetOutsideOfInode"), buf)
        ELSE IF off = inode.disk_node.size THEN ReadOut(Ok(0), buf)
        ELSE IF sb.block_size = 0 THEN ReadOut(Err("panic"), buf)
        ELSE i_read_from(d, inode, buf, off, n, off \div sb.block_size, n, <<>>)

(***************************************************************************)
(* Specification SpecRW: mkfs of RWInodeFS, blocks taken by other files,   *)
(* i_alloc of a file, then i_write and i_read on the inode i_get returns.  *)
(***************************************************************************)
MaxWrites == 2

RWSuperBlocks == {SBI_WIDE, SB_PACKED}

\* the lengths handed to i_read and i_write: within a block, a whole block
\* of the smaller size plus one byte, a whole block of the larger plus one
RWLens == {1, 3, 8, 15}

\* a source buffer of n distinct bytes, different for every write
Src(k, n) == [j \in 1..n |-> 40 * k + j]

\* a destination buffer of n bytes, none of which a source buffer holds
Dst(n) == [j \in 1..n |-> 255]

\* the offsets tried on an inode of the given size
RWOffsets(size) == {0, size \div 2, size, size + 1}

\* a call of i_read or i_write: buf as handed in, out the buffer afterwards
RWCall(name, sb, ino, buf, off, n, out) ==
    [name |-> name, i |-> ino.inum, sb |-> sb, ino |-> ino, nm |-> buf,
     off |-> off, n |-> n, out |-> out]

MkfsRW ==
    /\ phase = "unformatted"
    /\ \E sb \in RWSuperBlocks :
        LET r == mkfs("Inode", sb)
        IN  /\ disk' = r.disk
            /\ ret' = r.ret
            /\ op' = Call("mkfs", 0, sb)
            /\ phase' = IF r.ret.ok THEN "mounted" ELSE "unformatted"
    /\ layer' = "RW"
    /\ hist' = NoHist

BAllocRW ==
    /\ phase = "mounted"
    /\ layer = "RW"
    /\ hist.live = {}
    /\ hist.nalloc = 0
    /\ LET r == b_alloc_times(disk, 0, TakenBlocks(op.sb))
       IN  /\ disk' = r.disk
           /\ ret' = r.ret
           /\ hist' = [hist EXCEPT
                  !.live = IF r.ret.ok THEN 0..(TakenBlocks(op.sb) - 1) ELSE @]
    /\ op' = Call("b_alloc", 0, op.sb)
    /\ UNCHANGED <<phase, layer>>

\* the one file of the run
IAllocRW ==
    /\ phase = "mounted"
    /\ layer = "RW"
    /\ hist.nalloc = 0
    /\ LET r == i_alloc("Inode", disk, TFile)
       IN  /\ disk' = r.disk
           /\ ret' = r.ret
    /\ op' = CallOf("i_alloc", TFile, op.sb, NoInode, <<>>)
    /\ hist' = [hist EXCEPT !.nalloc = 1]
    /\ UNCHANGED <<phase, layer>>

\* i_write(&mut inode, &buf, off, n) on the inode i_get(inum) returned
IWrite ==
    /\ phase = "mounted"
    /\ layer = "RW"
    /\ hist.nops < MaxWrites
    /\ \E inum \in 0..(op.sb.ninodes - 1) : \E n \in RWLens :
        /\ i_get(disk, inum).ok
        /\ i_get(disk, inum).inode.disk_node.ft = TFile
        /\ \E off \in RWOffsets(i_get(disk, inum).inode.disk_node.size) :
            LET inode == i_get(disk, inum).inode
                buf == Src(hist.nops + 1, n)
                r == i_write(disk, inode, buf, off, n)
            IN  /\ disk' = r.disk
                /\ ret' = r.ret
                /\ op' = RWCall("i_write", op.sb, inode, buf, off, n, buf)
                /\ hist' = [hist EXCEPT !.nops = @ + 1, !.ino = r.inode]
    /\ UNCHANGED <<phase, layer>>

\* i_read(&inode, &mut buf, off, n) on the inode i_get(inum) returned
IRead ==
    /\ phase = "mounted"
    /\ layer = "RW"
    /\ \E inum \in 0..(op.sb.ninodes - 1) : \E n \in RWLens :
        /\ i_get(disk, inum).ok
        /\ i_get(disk, inum).inode.disk_node.ft = TFile
        /\ \E off \in RWOffsets(i_get(disk, inum).inode.disk_node.size) :
            LET inode == i_get(disk, inum).inode
                r == i_read(disk, inode, Dst(n), off, n)
            IN  /\ ret' = r.ret
                /\ op' = RWCall("i_read", op.sb, inode, Dst(n), off, n, r.buf)
                /\ hist' = [hist EXCEPT !.ino = inode]
    /\ UNCHANGED <<disk, phase, layer>>

NextRW == MkfsRW \/ BAllocRW \/ IAllocRW \/ IWrite \/ IRead

SpecRW == Init /\ [][NextRW]_vars

\* an i_write step at offset 0 of an empty file, of a size its direct
\* blocks can hold and the free data blocks can take
EmptyFileWrite(d, o) ==
    /\ o.name = "i_write"
    /\ o.ino.disk_node.size = 0
    /\ o.ino.disk_node.direct_blocks = NoDirectBlocks
    /\ o.off = 0
    /\ o.n \in 1..(NDIRECT * o.sb.block_size)
    /\ Cardinality(FreeIndices(d)) >= Ceil(o.n, o.sb.block_size)

\* C25: i_write(inode, src, 0, size) on an empty inode succeeds for every size
\* in [1, NDIRECT * block_size], and i_read(inode, buf, 0, size) afterwards
\* returns size and fills buf with exactly the first size bytes of src,
\* including sizes that span more than one block.
C25_WriteThenRead ==
    [][/\ EmptyFileWrite(disk, op') => ret'.ok
       /\ (/\ op.name = "i_write" /\ ret.ok /\ op.off = 0
           /\ op.ino.disk_node.size = 0 /\ op.n >= 1
           /\ op'.name = "i_read" /\ op'.off = 0 /\ op'.n = op.n
           /\ op'.ino.inum = op.ino.inum) =>
          (ret'.ok /\ ret'.val = op.n /\ op'.out = SubSeq(op.nm, 1, op.n))]_vars

\* the larger of two numbers
Max(a, b) == IF a >= b THEN a ELSE b

\* C26: after every successful i_write(inode, buf, off, n) with off <= size,
\* the inode's size, in the caller's inode and on disk, equals
\* max(old size, off + n): an append past the old end (one that starts inside
\* the last partially filled block included) grows size to off + n, a write
\* within existing bytes leaves size unchanged.
C26_WriteSize ==
    [][(op'.name = "i_write" /\ ret'.ok /\ op'.off <= op'.ino.disk_node.size) =>
        LET size == Max(op'.ino.disk_node.size, op'.off + op'.n)
        IN  /\ hist'.ino.disk_node.size = size
            /\ i_get(disk', op'.ino.inum).inode.disk_node.size = size]_vars

\* the byte at offset o of the inode: byte o % block_size of its block number
\* o \div block_size
ByteAt(d, sb, inode, o) ==
    d[inode.disk_node.direct_blocks[o \div sb.block_size]][o % sb.block_size]

\* C27: i_read(inode, buf, off, n) with off <= size returns exactly
\* min(n, size - off) and copies exactly the inode's bytes
\* [off, off + min(n, size - off)) into buf; it never returns or copies bytes
\* located past inode.size, and with off = size it returns 0.
C27_ReadWithinSize ==
    [][(op'.name = "i_read" /\ op'.off <= op'.ino.disk_node.size) =>
        LET count == Min({op'.n, op'.ino.disk_node.size - op'.off})
        IN  /\ ret'.ok
            /\ ret'.val = count
            /\ \A j \in 1..Len(op'.nm) :
                op'.out[j] = IF j <= count
                             THEN ByteAt(disk, op'.sb, op'.ino, op'.off + j - 1)
                             ELSE op'.nm[j]]_vars

\* C28: i_read and i_write called with off > inode.size fail with
\* OffsetOutsideOfInode; no block is allocated, no block of the device is
\* written, and the caller's inode and buffer are unchanged.
C28_OffsetOutside ==
    [][(op'.name \in {"i_read", "i_write"} /\ op'.off > op'.ino.disk_node.size) =>
        /\ ret'.err = "OffsetOutsideOfInode"
        /\ disk' = disk
        /\ hist'.ino = op'.ino
        /\ op'.out = op'.nm]_vars

\* C28 witness: a write beyond the end of a file that holds bytes is refused
C28_Witness ==
    /\ op.name = "i_write"
    /\ op.ino.disk_node.size > 0
    /\ op.off = op.ino.disk_node.size + 1
    /\ ret.err = "OffsetOutsideOfInode"
    /\ i_get(disk, op.ino.inum).inode = op.ino

(***************************************************************************)
(* Specification SpecSlot: mkfs of the inode or the directory layer, then  *)
(* i_put and i_get with inums up to ninodes.                               *)
(***************************************************************************)
IGet ==
    /\ phase = "mounted"
    /\ layer \in InoLayers
    /\ \E inum \in 0..op.sb.ninodes :
        LET r == i_get_of(layer, disk, inum)
        IN  /\ ret' = IF r.ok THEN Ok(0) ELSE Err(r.err)
            /\ op' = CallOf("i_get", inum, op.sb, NoInode, <<>>)
            /\ hist' = [hist EXCEPT !.ino = r.inode]
    /\ UNCHANGED <<disk, phase, layer>>

NextSlot == MkfsIno \/ IPut \/ IGet

SpecSlot == Init /\ [][NextSlot]_vars

\* the block of inode inum: inodestart + inum / n_ipb
SlotBlock(sb, inum) == sb.inodestart + inum \div (sb.block_size \div DINODE_SIZE)

\* the byte offset of inode inum in its block: DINODE_SIZE * (inum mod n_ipb)
SlotOffset(sb, inum) == DINODE_SIZE * (inum % (sb.block_size \div DINODE_SIZE))

\* C29: i_get(k) and i_put(inode) fail with OutsideOfTheBoundaries when the inum
\* is >= ninodes, for every ninodes >= 0, and then read or write no inode slot;
\* for inum < ninodes they access block inodestart + inum / n_ipb at byte offset
\* DINODE_SIZE * (inum mod n_ipb), with n_ipb = block_size / DINODE_SIZE.
C29_SlotBounds ==
    [][op'.name \in {"i_get", "i_put"} =>
        LET sb == op'.sb
            no == SlotBlock(sb, op'.i)
            off == SlotOffset(sb, op'.i)
        IN  /\ op'.i >= sb.ninodes =>
                (ret'.err = "OutsideOfTheBoundaries" /\ disk' = disk)
            /\ (op'.i < sb.ninodes /\ op'.name = "i_put") =>
                /\ ret'.ok
                /\ disk' = [disk EXCEPT ![no] =
                               WriteAt(@, off, serialize_dinode(op'.ino.disk_node))]
            /\ (op'.i < sb.ninodes /\ op'.name = "i_get"
                    /\ DecodesDInode(disk[no], off)) =>
                /\ ret'.ok
                /\ hist'.ino = Inode(op'.i, deserialize_dinode(disk[no], off))]_vars

(***************************************************************************)
(* Specification SpecLayout: mkfs, then sup_put of another layout for the  *)
(* same device, and block and inode operations before and after it.        *)
(* op.sb is the superblock most recently written by mkfs or sup_put.       *)
(***************************************************************************)
MaxLayOps == 2

\* SBI_WIDE with every region moved, one inode more and fewer data blocks
SBL_MOVED == SuperBlock(7, 9, 3, 2, 3, 5, 6)

\* the second is for a device of another block size: sup_put refuses it
LaySuperBlocks == {SBL_MOVED, SB_PACKED}

\* block and inode numbers: 2 is an inode of SBL_MOVED only, 3 a data block of
\* SBI_WIDE only
LayArgs == {0, 2, 3}

MkfsLay ==
    /\ phase = "unformatted"
    /\ \E l \in InoLayers :
        LET r == mkfs_of(l, SBI_WIDE)
        IN  /\ disk' = r.disk
            /\ ret' = r.ret
            /\ layer' = l
            /\ phase' = IF r.ret.ok THEN "layout" ELSE "unformatted"
    /\ op' = Call("mkfs", 0, SBI_WIDE)
    /\ hist' = NoHist

SupPutLay ==
    /\ phase = "layout"
    /\ hist.nput < MaxPut
    /\ \E sup \in LaySuperBlocks :
        LET r == sup_put(disk, sup)
        IN  /\ disk' = r.disk
            /\ ret' = r.ret
            /\ op' = CallOf("sup_put", 0, IF r.ret.ok THEN sup ELSE op.sb,
                            NoInode, serialize_sb(sup))
    /\ hist' = [hist EXCEPT !.nput = @ + 1]
    /\ UNCHANGED <<phase, layer>>

\* sup_get: the superblock comes back as its serialization
SupGetLay ==
    /\ phase = "layout"
    /\ op' = CallOf("sup_get", 0, op.sb, NoInode, serialize_sb(sup_get(disk)))
    /\ ret' = Ok(0)
    /\ UNCHANGED <<disk, phase, layer, hist>>

BAllocLay ==
    /\ phase = "layout"
    /\ hist.nops < MaxLayOps
    /\ LET r == b_alloc(disk)
       IN  disk' = r.disk /\ ret' = r.ret
    /\ op' = Call("b_alloc", 0, op.sb)
    /\ hist' = [hist EXCEPT !.nops = @ + 1]
    /\ UNCHANGED <<phase, layer>>

BFreeLay ==
    /\ phase = "layout"
    /\ hist.nops < MaxLayOps
    /\ \E i \in LayArgs :
        LET r == b_free(disk, i)
        IN  disk' = r.disk /\ ret' = r.ret /\ op' = Call("b_free", i, op.sb)
    /\ hist' = [hist EXCEPT !.nops = @ + 1]
    /\ UNCHANGED <<phase, layer>>

BZeroLay ==
    /\ phase = "layout"
    /\ hist.nops < MaxLayOps
    /\ \E i \in LayArgs :
        LET r == b_zero(disk, i)
        IN  disk' = r.disk /\ ret' = r.ret /\ op' = Call("b_zero", i, op.sb)
    /\ hist' = [hist EXCEPT !.nops = @ + 1]
    /\ UNCHANGED <<phase, layer>>

IGetLay ==
    /\ phase = "layout"
    /\ \E inum \in LayArgs :
        LET r == i_get_of(layer, disk, inum)
        IN  /\ ret' = IF r.ok THEN Ok(0) ELSE Err(r.err)
            /\ op' = Call("i_get", inum, op.sb)
            /\ hist' = [hist EXCEPT !.ino = r.inode]
    /\ UNCHANGED <<disk, phase, layer>>

IPutLay ==
    /\ phase = "layout"
    /\ hist.nops < MaxLayOps
    /\ \E inum \in LayArgs : \E dn \in {DInode(TFile, 1, 1, NoDirectBlocks), DInodeDefault} :
        LET ino == Inode(inum, dn)
            r == i_put(layer, disk, ino)
        IN  /\ disk' = r.disk
            /\ ret' = r.ret
            /\ op' = CallOf("i_put", inum, op.sb, ino, <<>>)
    /\ hist' = [hist EXCEPT !.nops = @ + 1]
    /\ UNCHANGED <<phase, layer>>

IAllocLay ==
    /\ phase = "layout"
    /\ hist.nops < MaxLayOps
    /\ LET r == i_alloc(layer, disk, TFile)
       IN  disk' = r.disk /\ ret' = r.ret
    /\ op' = Call("i_alloc", TFile, op.sb)
    /\ hist' = [hist EXCEPT !.nops = @ + 1]
    /\ UNCHANGED <<phase, layer>>

NextLayout ==
    \/ MkfsLay \/ SupPutLay \/ SupGetLay \/ BAllocLay \/ BFreeLay \/ BZeroLay
    \/ IGetLay \/ IPutLay \/ IAllocLay

SpecLayout == Init /\ [][NextLayout]_vars

\* the blocks in which two devices of the same geometry differ
ChangedBlocks(d, e) == {b \in DOMAIN d : d[b] # e[b]}

\* the blocks between bmapstart and datastart, and the data blocks
BitmapArea(sb) == sb.bmapstart..(sb.datastart - 1)

\* C30: sup_put(s) followed by sup_get returns s, and every later operation
\* (b_alloc, b_free, b_zero, i_get, i_put, i_alloc) uses the layout of the most
\* recently written superblock rather than a value cached at mkfs or mount
\* time: its range errors follow the counts of s and the blocks it reads and
\* writes are those the layout s names.
C30_LatestSuperBlock ==
    [][LET s == op'.sb
           changed == ChangedBlocks(disk, disk')
       IN  /\ (op'.name = "sup_put" /\ ret'.ok) => op'.nm = serialize_sb(sup_get(disk'))
           /\ op'.name = "sup_get" => op'.nm = serialize_sb(s)
           /\ op'.name = "b_zero" =>
               IF op'.i >= s.ndatablocks
               THEN ret'.err = "OutsideOfTheBoundaries" /\ disk' = disk
               ELSE ret'.ok /\ disk' = [disk EXCEPT ![s.datastart + op'.i] =
                                           ZeroBlock(s.block_size)]
           /\ op'.name = "b_free" =>
               /\ op'.i >= s.ndatablocks =>
                   (ret'.err = "OutsideOfTheBoundaries" /\ disk' = disk)
               /\ op'.i < s.ndatablocks =>
                   ret'.err \in {"none", "MemoryAlreadyDeallocated"}
               /\ changed \subseteq BitmapArea(s)
           /\ (op'.name = "b_alloc" /\ ret'.ok) =>
               /\ changed \cap BitmapArea(s) # {}
               /\ changed \subseteq BitmapArea(s) \cup DataRegion(s)
           /\ op'.name = "i_get" =>
               IF op'.i >= s.ninodes THEN ret'.err = "OutsideOfTheBoundaries"
               ELSE /\ ret'.ok
                    /\ hist'.ino = Inode(op'.i,
                           deserialize_dinode(disk[SlotBlock(s, op'.i)], SlotOffset(s, op'.i)))
           /\ op'.name = "i_put" =>
               IF op'.i >= s.ninodes
               THEN ret'.err = "OutsideOfTheBoundaries" /\ disk' = disk
               ELSE /\ ret'.ok
                    /\ disk' = [disk EXCEPT ![SlotBlock(s, op'.i)] =
                                   WriteAt(@, SlotOffset(s, op'.i),
                                           serialize_dinode(op'.ino.disk_node))]
           /\ (op'.name = "i_alloc" /\ ret'.ok) =>
               /\ ret'.val < s.ninodes
               /\ changed = {SlotBlock(s, ret'.val)}]_vars

\* C30 witness: after sup_put moved the data region, b_zero of a block number
\* that the mkfs layout allowed is out of range, and sup_get returns the layout
\* written
C30_Witness ==
    /\ op.name = "b_zero" /\ op.i = 3
    /\ op.sb = SBL_MOVED
    /\ op.sb # SBI_WIDE
    /\ sup_get(disk) = SBL_MOVED
    /\ ret.err = "OutsideOfTheBoundaries"

(***************************************************************************)
(* Specification SpecBlock: mkfs of the block layer, then b_put, b_zero    *)
(* and b_get of blocks inside and outside the device.  op.nm is the block  *)
(* handed to b_put or returned by b_get.                                   *)
(***************************************************************************)
MaxBlockOps == 2

BlockSuperBlocks == {SB_GOOD, SB_SHIFTED, SB_PACKED}

\* block numbers: the superblock, an inode block, data blocks, the last block
\* of the device and the first outside it
BlockNumbers(sb) == {0, 1, sb.datastart, sb.datastart + 1, sb.nblocks - 1, sb.nblocks}

\* every byte 255
FullBlock(bs) == [j \in 0..(bs - 1) |-> 255]

\* the blocks handed to b_put: two of the device's block size, one longer
PutBlocks(bs) == {PutPattern(bs), FullBlock(bs), PutPattern(bs + 1)}

\* a b_put over block 0 leaves no superblock to go on with
StillMounted(d, sb) == IF sup_get(d) = sb THEN "block" ELSE "damaged"

MkfsBlk ==
    /\ phase = "unformatted"
    /\ \E sb \in BlockSuperBlocks :
        LET r == mkfs_block(sb)
        IN  /\ disk' = r.disk
            /\ ret' = r.ret
            /\ op' = Call("mkfs", 0, sb)
            /\ phase' = IF r.ret.ok THEN "block" ELSE "unformatted"
    /\ layer' = "Block"
    /\ hist' = NoHist

BPutBlk ==
    /\ phase = "block"
    /\ hist.nops < MaxBlockOps
    /\ \E no \in BlockNumbers(op.sb) : \E blk \in PutBlocks(op.sb.block_size) :
        LET r == b_put(disk, no, blk)
        IN  /\ disk' = r.disk
            /\ ret' = r.ret
            /\ op' = CallOf("b_put", no, op.sb, NoInode, blk)
            /\ phase' = StillMounted(r.disk, op.sb)
    /\ hist' = [hist EXCEPT !.nops = @ + 1]
    /\ UNCHANGED layer

BZeroBlk ==
    /\ phase = "block"
    /\ hist.nops < MaxBlockOps
    /\ \E i \in 0..(op.sb.ndatablocks + 1) :
        LET r == b_zero(disk, i)
        IN  /\ disk' = r.disk
            /\ ret' = r.ret
            /\ op' = Call("b_zero", i, op.sb)
    /\ hist' = [hist EXCEPT !.nops = @ + 1]
    /\ UNCHANGED <<phase, layer>>

BGetBlk ==
    /\ phase \in {"block", "damaged"}
    /\ \E i \in 0..op.sb.nblocks :
        LET r == b_get(disk, i)
        IN  /\ ret' = IF r.ok THEN Ok(0) ELSE Err(r.err)
            /\ op' = CallOf("b_get", i, op.sb, NoInode, r.block)
    /\ UNCHANGED <<disk, phase, layer, hist>>

NextBlock == MkfsBlk \/ BPutBlk \/ BZeroBlk \/ BGetBlk

SpecBlock == Init /\ [][NextBlock]_vars

\* C31: b_put(b) followed by b_get(b.block_no) returns a block equal to b and
\* changes no other block; b_zero(i) makes b_get(datastart + i) all zero bytes
\* and changes no other block, and fails with OutsideOfTheBoundaries without
\* writing when i >= ndatablocks.
C31_PutGetZero ==
    [][/\ (op'.name = "b_put" /\ ret'.ok) =>
            /\ ChangedBlocks(disk, disk') \subseteq {op'.i}
            /\ b_get(disk', op'.i).ok
            /\ b_get(disk', op'.i).block = op'.nm
       /\ (op.name = "b_put" /\ ret.ok /\ op'.name = "b_get" /\ op'.i = op.i) =>
            (ret'.ok /\ op'.nm = op.nm)
       /\ (op.name = "b_put" /\ op'.name = "b_get" /\ op'.i # op.i /\ ret'.ok) =>
            op'.nm = disk[op'.i]
       /\ op'.name = "b_zero" =>
            IF op'.i >= op'.sb.ndatablocks
            THEN ret'.err = "OutsideOfTheBoundaries" /\ disk' = disk
            ELSE /\ ret'.ok
                 /\ ChangedBlocks(disk, disk') \subseteq {op'.sb.datastart + op'.i}
                 /\ b_get(disk', op'.sb.datastart + op'.i).ok
                 /\ b_get(disk', op'.sb.datastart + op'.i).block
                        = ZeroBlock(op'.sb.block_size)
       /\ (op.name = "b_zero" /\ ret.ok /\ op'.name = "b_get"
             /\ op'.i = op.sb.datastart + op.i) =>
            (ret'.ok /\ op'.nm = ZeroBlock(op.sb.block_size))]_vars

\* C31 witness: a data block that b_put filled is read back all zero after
\* b_zero, the block next to it still as b_put left it
C31_Witness ==
    /\ op.name = "b_get" /\ ret.ok
    /\ op.i = op.sb.datastart
    /\ op.nm = ZeroBlock(op.sb.block_size)
    /\ disk[op.sb.datastart + 1] = FullBlock(op.sb.block_size)
    /\ hist.nops = 2

\* C32: a successful b_alloc returning k modifies only bit k of the bitmap and
\* the contents of data block datastart + k; every other data block, allocated
\* ones included, and every inode and superblock block are unchanged, whatever
\* the relation between datastart and ndatablocks.
C32_AllocFrame ==
    [][(op'.name = "b_alloc" /\ ret'.ok) =>
        LET sb == sup_get(disk)
            k == ret'.val
        IN  /\ ChangedBlocks(disk, disk') \subseteq BitmapArea(sb) \cup {sb.datastart + k}
            /\ BitmapBit(disk', k) = 1
            /\ \A p \in BitmapPositions(disk) :
                  p # k => BitmapBit(disk', p) = BitmapBit(disk, p)]_vars

\* C33: an i_write whose range lies entirely within the inode's existing
\* content (off + n <= size) allocates no data block and changes no
\* direct_blocks entry: the bitmap and the inode's direct_blocks are the same
\* before and after the call.
C33_WriteInPlace ==
    [][(op'.name = "i_write" /\ op'.off + op'.n <= op'.ino.disk_node.size) =>
        /\ \A p \in BitmapPositions(disk) : BitmapBit(disk', p) = BitmapBit(disk, p)
        /\ hist'.ino.disk_node.direct_blocks = op'.ino.disk_node.direct_blocks
        /\ i_get(disk', op'.i).inode.disk_node.direct_blocks
               = op'.ino.disk_node.direct_blocks]_vars

(***************************************************************************)
(* Specification SpecOwn: mkfs of RWInodeFS or DirFS, then i_alloc,        *)
(* i_write or dirlink, i_trunc and i_free; the caller never calls i_put,   *)
(* b_put, b_alloc or b_free itself.  hist.clean holds while every i_write  *)
(* and dirlink so far has succeeded and nothing has been released,         *)
(* hist.released once an i_trunc or i_free has been called.                *)
(***************************************************************************)
MaxOwnOps == 6

\* two inodes in one block, datastart 3 below ndatablocks 5
SBO_PACKED == SuperBlock(14, 8, 2, 1, 5, 2, 3)

\* two directory entries fill a block exactly; datastart 4 is a multiple of
\* ndatablocks 2
SBO_EXACT == SuperBlock(8, 6, 2, 1, 2, 3, 4)

\* the inode functions RWInodeFS has are those of the inode layer
InodeLayerOf(l) == IF l = "RW" THEN "Inode" ELSE l

\* the names the caller links, in this order: one more than an inode has
\* direct blocks
OwnNames == <<(<<1>>), (<<2>>), (<<1, 2>>), (<<2, 1>>), (<<1, 1>>)>>

\* the caller links the next name of the list or repeats the last one linked,
\* going by the number of entries the directory holds
NamesToLink(inode) ==
    LET n == inode.disk_node.size \div DIRENTRY_SIZE
    IN  {OwnNames[j] : j \in {k \in {n, n + 1} : k \in DOMAIN OwnNames}}

\* the inums whose inode is in use
InUse(l, d) ==
    {k \in 0..(sup_get(d).ninodes - 1) :
        i_get_of(l, d, k).ok /\ i_get_of(l, d, k).inode.disk_node.ft # TFree}

MkfsOwn ==
    /\ phase = "unformatted"
    /\ \E c \in {<<"RW", SBO_PACKED>>, <<"Dir", SB_GOOD>>, <<"Dir", SBO_EXACT>>} :
        LET r == mkfs_of(InodeLayerOf(c[1]), c[2])
        IN  /\ disk' = r.disk
            /\ ret' = r.ret
            /\ op' = Call("mkfs", 0, c[2])
            /\ layer' = c[1]
            /\ phase' = IF r.ret.ok THEN "own" ELSE "unformatted"
    /\ hist' = NoHist

IAllocOwn ==
    /\ phase = "own"
    /\ hist.nops < MaxOwnOps
    /\ LET r == i_alloc(InodeLayerOf(layer), disk, IF layer = "Dir" THEN TDir ELSE TFile)
       IN  disk' = r.disk /\ ret' = r.ret
    /\ op' = Call("i_alloc", 0, op.sb)
    /\ hist' = [hist EXCEPT !.nops = @ + 1]
    /\ UNCHANGED <<phase, layer>>

\* a write of one byte at offset 0 or of a whole block at the end
IWriteOwn ==
    /\ phase = "own"
    /\ layer = "RW"
    /\ hist.nops < MaxOwnOps
    /\ \E inum \in InUse("Inode", disk) :
        LET inode == i_get(disk, inum).inode
        IN  \E c \in {<<0, 1>>, <<inode.disk_node.size, op.sb.block_size>>} :
                LET r == i_write(disk, inode, Src(1, c[2]), c[1], c[2])
                IN  /\ disk' = r.disk
                    /\ ret' = r.ret
                    /\ op' = RWCall("i_write", op.sb, inode, Src(1, c[2]), c[1], c[2],
                                    Src(1, c[2]))
                    /\ hist' = [hist EXCEPT !.nops = @ + 1, !.ino = r.inode,
                                            !.clean = @ /\ r.ret.ok]
    /\ UNCHANGED <<phase, layer>>

\* a directory links itself under a name
DirlinkOwn ==
    /\ phase = "own"
    /\ layer = "Dir"
    /\ hist.nops < MaxOwnOps
    /\ \E dir \in InUse("Dir", disk) : \E name \in NamesToLink(i_get_dir(disk, dir).inode) :
        LET inode == i_get_dir(disk, dir).inode
            r == dirlink(disk, inode, name, dir)
        IN  /\ disk' = r.disk
            /\ ret' = r.ret
            /\ op' = CallOf("dirlink", dir, op.sb, inode, name)
            /\ hist' = [hist EXCEPT !.nops = @ + 1, !.ino = r.inode,
                                    !.clean = @ /\ r.ret.ok]
    /\ UNCHANGED <<phase, layer>>

ITruncOwn ==
    /\ phase = "own"
    /\ hist.nops < MaxOwnOps
    /\ \E k \in InUse(InodeLayerOf(layer), disk) :
        LET inode == i_get_of(InodeLayerOf(layer), disk, k).inode
            r == i_trunc(InodeLayerOf(layer), disk, inode)
        IN  /\ disk' = r.disk
            /\ ret' = r.ret
            /\ op' = CallOf("i_trunc", k, op.sb, inode, <<>>)
            /\ hist' = [hist EXCEPT !.nops = @ + 1, !.ino = r.inode, !.clean = FALSE,
                                    !.released = TRUE]
    /\ UNCHANGED <<phase, layer>>

IFreeOwn ==
    /\ phase = "own"
    /\ hist.nops < MaxOwnOps
    /\ \E k \in 1..(op.sb.ninodes - 1) :
        LET r == i_free(InodeLayerOf(layer), disk, k)
        IN  /\ disk' = r.disk
            /\ ret' = r.ret
            /\ op' = CallOf("i_free", k, op.sb,
                            i_get_of(InodeLayerOf(layer), disk, k).inode, <<>>)
    /\ hist' = [hist EXCEPT !.nops = @ + 1, !.clean = FALSE,
                                    !.released = TRUE]
    /\ UNCHANGED <<phase, layer>>

NextOwn == MkfsOwn \/ IAllocOwn \/ IWriteOwn \/ DirlinkOwn \/ ITruncOwn \/ IFreeOwn

SpecOwn == Init /\ [][NextOwn]_vars

\* the pairs (inum, slot) of the in-use inodes that hold a block address
Pointers(l, d) ==
    {p \in InUse(l, d) \X (0..(NDIRECT - 1)) :
        i_get_of(l, d, p[1]).inode.disk_node.direct_blocks[p[2]] # 0}

PointerAt(l, d, p) == i_get_of(l, d, p[1]).inode.disk_node.direct_blocks[p[2]]

\* C34: in every state reachable from mkfs by i_alloc, dirlink, i_write,
\* i_trunc and i_free, every non-zero direct_blocks entry of every in-use inode
\* is an absolute address d with datastart <= d < datastart + ndatablocks whose
\* bitmap bit d - datastart is 1, and no data block address appears in the
\* direct_blocks of two different inodes or twice in one inode.
C34_PointersOwnBlocks ==
    phase = "own" =>
        LET l == InodeLayerOf(layer)
            sb == sup_get(disk)
        IN  /\ \A p \in Pointers(l, disk) :
                /\ PointerAt(l, disk, p) \in DataRegion(sb)
                /\ BitmapBit(disk, PointerAt(l, disk, p) - sb.datastart) = 1
            /\ \A p, q \in Pointers(l, disk) :
                p # q => PointerAt(l, disk, p) # PointerAt(l, disk, q)

\* a successful i_trunc, or i_free of an in-use inode with nlink = 0, of the
\* only inode that holds blocks, every i_write and dirlink before it having
\* succeeded and nothing having been released before
ReleasesOnlyHolder(l, d, h, o, r) ==
    /\ o.name \in {"i_trunc", "i_free"}
    /\ r.ok
    /\ h.clean
    /\ o.ino.disk_node.ft # TFree
    /\ o.name = "i_free" => o.ino.disk_node.nlink = 0
    /\ \A p \in Pointers(l, d) : p[1] = o.i

\* C35: no data block is leaked: if an inode starts empty and is then grown by
\* successful i_write (or dirlink) calls, a following i_trunc on it (or i_free
\* with nlink = 0) returns the bitmap to the state it had before the first of
\* those calls (here: no bit set, the run having started at mkfs).
C35_NoLeak ==
    [][ReleasesOnlyHolder(InodeLayerOf(layer), disk, hist, op', ret') =>
        \A p \in BitmapPositions(disk) : BitmapBit(disk', p) = 0]_vars

\* the slots of the assigned blocks of directory k that hold an entry: pairs
\* of a direct_blocks position and a byte offset within that block
OccupiedSlots(d, k) ==
    LET sb == sup_get(d)
        dn == i_get_of("Dir", d, k).inode.disk_node
    IN  {s \in (0..(NDIRECT - 1)) \X (0..(sb.block_size - DIRENTRY_SIZE)) :
            /\ s[2] % DIRENTRY_SIZE = 0
            /\ dn.direct_blocks[s[1]] \in DOMAIN d
            /\ dn.direct_blocks[s[1]] # 0
            /\ deserialize_de(d[dn.direct_blocks[s[1]]], s[2]).inum # 0}

SlotName(d, k, s) ==
    get_name_str(deserialize_de(d[i_get_of("Dir", d, k).inode.disk_node.direct_blocks[s[1]]], s[2]))

\* C36: directory names stay unique: in every directory reachable from an
\* empty directory by dirlink calls, no two occupied slots (inum # 0) hold the
\* same name, for every block_size including exact multiples of DIRENTRY_SIZE.
C36_UniqueNames ==
    (phase = "own" /\ layer = "Dir" /\ ~hist.released) =>
        \A k \in InUse("Dir", disk) :
            i_get_of("Dir", disk, k).inode.disk_node.ft = TDir =>
                \A s, t \in OccupiedSlots(disk, k) :
                    SlotName(disk, k, s) = SlotName(disk, k, t) => s = t

\* C37: dirlookup(dir, name) succeeds only if an earlier dirlink(dir, name, k)
\* on that directory succeeded, and then returns inode k: it never matches an
\* empty slot (inum = 0), never matches bytes beyond dir.size, and never
\* returns inode 0.
C37_LookupFindsLinks ==
    [][(op'.name = "dirlookup" /\ ret'.ok) =>
        /\ \E l \in hist.links :
            l.dir = op'.ino.inum /\ l.name = op'.nm /\ l.k = hist'.ino.inum
        /\ hist'.ino.inum # 0
        /\ ret'.val + DIRENTRY_SIZE <= op'.ino.disk_node.size]_vars

\* every slot dirlink scans in the NDIRECT blocks of the directory is taken
DirFull(d, inode) ==
    LET sb == sup_get(d)
    IN  /\ inode.disk_node.ft = TDir
        /\ DirNValidBlocks(sb, inode.disk_node.size) >= NDIRECT
        /\ \A i \in 0..(NDIRECT - 1) : \A o \in 0..(sb.block_size - DIRENTRY_SIZE) :
            o % DIRENTRY_SIZE = 0 =>
                /\ LinkBlock(sb, inode.disk_node.direct_blocks[i]) \in DOMAIN d
                /\ deserialize_de(d[LinkBlock(sb, inode.disk_node.direct_blocks[i])], o).inum # 0

\* the write needs a block beyond the NDIRECT the inode already uses
FileFull(sb, o) ==
    /\ NValidBlocks(sb, o.ino.disk_node.size) >= NDIRECT
    /\ o.off <= o.ino.disk_node.size
    /\ o.off + o.n > NDIRECT * sb.block_size

\* C38: no operation indexes direct_blocks at a position >= NDIRECT: dirlink on
\* a directory whose NDIRECT blocks are all full, and i_write on an inode that
\* already uses NDIRECT blocks, return an error (no abort) and leave the bitmap
\* unchanged.
C38_FullInode ==
    [][((op'.name = "dirlink" /\ DirFull(disk, op'.ino))
            \/ (op'.name = "i_write" /\ FileFull(op'.sb, op'))) =>
        /\ ~ret'.ok
        /\ ret'.err # "panic"
        /\ \A p \in BitmapPositions(disk) : BitmapBit(disk', p) = BitmapBit(disk, p)]_vars

\* `self.b_get(inode.disk_node.direct_blocks[i])`: the block dirlookup reads
\* for the pointer a
LookupBlock(sb, a) == a

\* the pointers of the blocks within the size of a directory / of a file
DirValidPointers(sb, inode) ==
    {inode.disk_node.direct_blocks[i] :
        i \in {j \in 0..(NDIRECT - 1) : j < DirNValidBlocks(sb, inode.disk_node.size)}}

FileValidPointers(sb, inode) ==
    {inode.disk_node.direct_blocks[i] :
        i \in {j \in 0..(NDIRECT - 1) : j < NValidBlocks(sb, inode.disk_node.size)}}

\* C39: dirlink, dirlookup, i_read and i_write all resolve direct_blocks[i] to
\* the same device block, the stored absolute address itself: the block dirlink
\* scans and writes for slot i is the block dirlookup reads for slot i, and the
\* block i_write writes is the block i_read reads.
C39_SameBlock ==
    [][/\ (op'.name = "dirlink" /\ op'.ino.disk_node.ft = TDir) =>
            \A a \in DirValidPointers(op'.sb, op'.ino) :
                LinkBlock(op'.sb, a) = LookupBlock(op'.sb, a)
       /\ op'.name \in {"i_write", "i_read"} =>
            \A a \in FileValidPointers(op'.sb, op'.ino) : RWBlock(op'.sb, a) = a]_vars

\* C40: the layer implementations agree on the operations they share: for the
\* same valid superblock and the same calls (b_alloc, b_free, b_zero, sup_get,
\* i_get, i_put, i_alloc, i_free, i_trunc) they return the same results (up to
\* error wrapping) and leave the same disk contents.  Here: each inode call of
\* a run gives the same result and disk in the inode layer (whose functions
\* RWInodeFS repeats) and in the directory layer, from the same disk.
C40_LayersAgree ==
    [][/\ op'.name = "i_put" => i_put("Inode", disk, op'.ino) = i_put("Dir", disk, op'.ino)
       /\ op'.name = "i_alloc" => i_alloc("Inode", disk, op'.i) = i_alloc("Dir", disk, op'.i)
       /\ op'.name = "i_free" => i_free("Inode", disk, op'.i) = i_free("Dir", disk, op'.i)
       /\ op'.name = "i_trunc" =>
            i_trunc("Inode", disk, op'.ino) = i_trunc("Dir", disk, op'.ino)
       /\ phase' = "mounted" =>
            \A k \in 0..op'.sb.ninodes :
                i_get_of("Inode", disk', k) = i_get_of("Dir", disk', k)]_vars

====
